---- MODULE Spec2Model ----
(***************************************************************************)
(* Job dispatch, work queue and browser-session handling of the onch       *)
(* service: OnchMessageController.processMessage, MessageQueueProcessor,   *)
(* OnchService (queue operations, cron) and OnchCrawlerService.            *)
(***************************************************************************)
EXTENDS Integers, Sequences, FiniteSets, TLC

\* ------------------------------------------------------------------ bounds
MaxReq == 2            \* message slots the dispatcher serves concurrently
MaxJobs == 2           \* jobs the queue ever holds
MaxCron == 1           \* cron ticks of requestNotification
MaxManualRetries == 1  \* calls of OnchService.retryJob

\* ------------------------------------------------------- program constants
Attempts == 5          \* defaultJobOptions.attempts
Concurrency == 1       \* @Process({ name: 'product-registration', concurrency: 1 })

\* ------------------------------------------------------------ input values
Slots == 1..MaxReq
QJobs == 1..MaxJobs
Stores == {"s1", "s2"}
JobIdVals == {"j1"}
JobTypes == {"REG"}
CronStore == "s1"      \* configService.get('STORE')
CronJobId(n) == "c" \o ToString(n)   \* utilService.generateCronId()

\* what a page of the sold-out list shows (the codes in its <b> cells)
SoldoutSites == { << <<"A1", "A2">>, << >> >>, << <<"A3">>, <<"A4">> >> }
\* the per-page results a registration run can produce
RegResults == { <<"page1:ok">>, <<"page1:failed">> }

\* -------------------------------------------------------- message patterns
RepoPatterns == {"clearOnchProducts", "getProductByCode"}
BrowserPatterns ==
  {"deleteProducts", "crawlingOnchSoldoutProducts", "crawlOnchRegisteredProducts",
   "automaticOrdering", "deliveryExtraction"}
QueueReadPatterns ==
  {"getStatus", "getWaitingJobs", "getActiveJobs", "getCompletedJobs",
   "getFailedJobs", "getDelayedJobs", "getAllJobs"}
QueuePatterns == {"productRegistration"}
RemovePatterns == {"deleteJob"}
RecognizedPatterns ==
  RepoPatterns \cup BrowserPatterns \cup QueueReadPatterns \cup QueuePatterns
    \cup RemovePatterns
\* names the switch has no case for
UnknownPatterns == {"crawlOnchSoldoutProducts", "waybillExtraction"}
Patterns == RecognizedPatterns \cup UnknownPatterns

\* payload.data: the job id for deleteJob, the number of distinct product
\* codes for deleteProducts, unused elsewhere
DataVals(pattern) ==
  IF pattern = "deleteJob" THEN QJobs
  ELSE IF pattern = "deleteProducts" THEN {0, 2}
  ELSE {0}

\* ------------------------------------------------------------ reply values
NoData == [tag |-> "none", items |-> << >>]
NoReply == [kind |-> "none", status |-> "", data |-> NoData, message |-> ""]
Envelope(status, data, message) ==
  [kind |-> "envelope", status |-> status, data |-> data, message |-> message]
\* the handler returned without a value
UndefinedReply == [kind |-> "undefined", status |-> "", data |-> NoData, message |-> ""]
\* the promise of the handler rejected
Thrown(message) == [kind |-> "threw", status |-> "", data |-> NoData, message |-> message]

UnknownPatternMessage(pattern) == "unknown pattern: " \o pattern

\* a default branch that throws instead of answering
UnknownReplyThrows(pattern) == Thrown(UnknownPatternMessage(pattern))

\* the default branch of the switch
UnknownReply(pattern) == Envelope("error", NoData, UnknownPatternMessage(pattern))

\* ------------------------------------------------- crawler service: naming
\* contextId of the operations that key the session by their store parameter
StoreContextId(store, jobId) == "context-" \o store \o "-" \o jobId
\* contextId of productRegistration
JobTypeContextId(jobType, jobId) == "context-" \o jobType \o "-" \o jobId

ContextIdOf(name, store, jobId, jobType) ==
  IF name = "productRegistration" THEN JobTypeContextId(jobType, jobId)
  ELSE StoreContextId(store, jobId)

\* The positional arguments processMessage passes, bound to the parameter
\* names of the OnchCrawlerService method that receives them.
CallArgs(pattern, p) ==
  CASE pattern = "deleteProducts" ->
         \* called (jobId, jobType, store, data); declared (jobId, store, jobType, data)
         [jobId |-> p.jobId, store |-> p.jobType, jobType |-> p.store]
    [] pattern = "crawlingOnchSoldoutProducts" ->
         \* called (jobId, jobType, store); declared (store, jobId, jobType)
         [store |-> p.jobId, jobId |-> p.jobType, jobType |-> p.store]
    [] pattern = "crawlOnchRegisteredProducts" ->
         \* called (jobId, jobType, store); declared (jobId, store, jobType)
         [jobId |-> p.jobId, store |-> p.jobType, jobType |-> p.store]
    [] pattern = "automaticOrdering" ->
         \* called and declared (jobId, jobType, store, orders)
         [jobId |-> p.jobId, jobType |-> p.jobType, store |-> p.store]
    [] pattern = "deliveryExtraction" ->
         \* called (jobId, jobType, store); declared (jobId, store, jobType)
         [jobId |-> p.jobId, store |-> p.jobType, jobType |-> p.store]
    [] OTHER ->
         \* productRegistration: called and declared (jobId, jobType, store, data)
         [jobId |-> p.jobId, jobType |-> p.jobType, store |-> p.store]

\* ------------------------------------------- crawler service: an operation
NoSite == << >>
NoOp ==
  [name |-> "none", store |-> "", jobId |-> "", ctx |-> "", site |-> NoSite, pc |-> "none",
   acquired |-> FALSE, releases |-> 0, outcome |-> "none", res |-> NoData]

\* an operation as it is called: its context id is fixed from its arguments,
\* site is what the pages it will load show
NewOp(name, args, site) ==
  [name |-> name, store |-> args.store, jobId |-> args.jobId,
   ctx |-> ContextIdOf(name, args.store, args.jobId, args.jobType), site |-> site,
   pc |-> "login", acquired |-> FALSE, releases |-> 0, outcome |-> "none", res |-> NoData]

Returned(o, rel, res) ==
  [o EXCEPT !.pc = "done", !.outcome = "returned", !.releases = @ + rel, !.res = res]
Threw(o, rel) ==
  [o EXCEPT !.pc = "done", !.outcome = "threw", !.releases = @ + rel]

\* deleteProducts with no product code returns before any browser call
DeleteNothing(o) == Returned(o, 0, NoData)

\* What happens when loginToOnchSite rejects:
\*   release+throw  the call is inside try ... finally releaseContext
\*   release+empty  the call is inside try/catch that returns []
\*   throw          the call is before the try block
LoginFailed(o) ==
  CASE o.name \in {"deleteProducts", "crawlingOnchSoldoutProducts"} -> Threw(o, 1)
    [] o.name = "deliveryExtraction" -> Returned(o, 1, [tag |-> "deliveries", items |-> << >>])
    [] OTHER -> Threw(o, 0)

LoginOk(o) ==
  [o EXCEPT !.acquired = TRUE,
            !.pc = IF o.name = "crawlOnchRegisteredProducts" THEN "list" ELSE "work"]

\* crawlProductList runs between the login and the try block of
\* crawlOnchDetailProducts
ListOk(o) == [o EXCEPT !.pc = "work"]
ListFailed(o) == Threw(o, 0)

\* an extraction that follows the pages until one is empty
RECURSIVE ExtractAllPages(_)
ExtractAllPages(site) ==
  IF site = << >> \/ Head(site) = << >> THEN << >>
  ELSE Head(site) \o ExtractAllPages(Tail(site))

\* extractSoldOutProducts reads the codes of the page that is loaded
ExtractSoldOutProducts(site) == site[1]

\* the body after the login ran to its end
WorkOk(o, res) ==
  CASE o.name = "automaticOrdering" -> Returned(o, 2, res)
    [] o.name = "requestNotification" -> Returned(o, 0, res)
    [] OTHER -> Returned(o, 1, res)

\* a browser call of the body rejected
WorkFailed(o) ==
  CASE o.name = "automaticOrdering" -> Returned(o, 1, [tag |-> "undefined", items |-> << >>])
    [] o.name = "deliveryExtraction" -> Returned(o, 1, [tag |-> "deliveries", items |-> << >>])
    [] o.name = "requestNotification" -> Threw(o, 0)
    [] OTHER -> Threw(o, 1)

\* the values the body of an operation can return
WorkResults(o) ==
  CASE o.name = "crawlingOnchSoldoutProducts" ->
         {[tag |-> "soldout", items |-> ExtractSoldOutProducts(o.site)]}
    [] o.name = "productRegistration" ->
         {[tag |-> "results", items |-> r] : r \in RegResults}
    [] o.name = "automaticOrdering" -> {[tag |-> "orders", items |-> <<"order1:success">>]}
    [] o.name = "deliveryExtraction" -> {[tag |-> "deliveries", items |-> <<"row1">>]}
    [] o.name = "requestNotification" -> {[tag |-> "noti", items |-> <<"new">>], [tag |-> "noti", items |-> << >>]}
    [] OTHER -> {NoData}

\* ------------------------------------------------------------------- state
VARIABLES
  msg,            \* per slot: the message being served
  pc,             \* per slot: where processMessage is suspended
  reply,          \* per slot: what processMessage gave back to the message bus
  rjob,           \* per slot: the queue job whose end it awaits (0: none)
  ops,            \* per owner: the OnchCrawlerService call it is running
  contexts,       \* the browser contexts the pool holds open
  jobs,           \* the jobs of 'onch-bull-queue'
  waitq,          \* the wait list of the queue, oldest first
  cronRuns,       \* cron ticks so far
  manualRetries,  \* retryJob calls so far
  fan,            \* one operation that fans pages out of its context
  ord,            \* one call of automaticOrdering
  reg,            \* one registration run (processPages)
  pag,            \* one run of a paginated extraction loop
  ext,            \* one call of extractProductCodes
  det,            \* one call of crawlOnchDetailProducts
  act,            \* one call of performProductRegistrationAction
  prc,            \* one productRegistration job of the queue processor
  sel,            \* one call of selectProductOption
  hom,            \* one request served by handleOnchMessage and its queue job
  boot,           \* one start of the application over the queue a former run left
  dlv             \* one call of extractDeliveryData

\* the state of the dispatcher, the queue and the service calls they run
service == <<msg, pc, reply, rjob, ops, contexts, jobs, waitq, cronRuns, manualRetries>>
vars == <<msg, pc, reply, rjob, ops, contexts, jobs, waitq, cronRuns, manualRetries,
          fan, ord, reg, pag, ext, det, act, prc, sel, hom, boot, dlv>>

\* no run of the procedure has started
FanIdle == [pc |-> "idle"]
OrdIdle == [pc |-> "idle"]
RegIdle == [pc |-> "idle"]
PagIdle == [pc |-> "idle"]
ExtIdle == [pc |-> "idle"]
DetIdle == [pc |-> "idle"]
ActIdle == [pc |-> "idle"]
PrcIdle == [pc |-> "idle"]
SelIdle == [pc |-> "idle"]
HomIdle == [pc |-> "idle"]
BootIdle == [pc |-> "idle"]
DlvIdle == [pc |-> "idle"]

ReqOwner(r) == <<"req", r>>
JobOwner(j) == <<"job", j>>
CronOwner == <<"cron", 0>>
Owners == {ReqOwner(r) : r \in Slots} \cup {JobOwner(j) : j \in QJobs} \cup {CronOwner}

NoPayload == [jobId |-> "", jobType |-> "", store |-> "", data |-> 0]
NoMsg == [pattern |-> "", payload |-> NoPayload]
Payloads(pattern) ==
  IF pattern \in BrowserPatterns \cup QueuePatterns
  THEN [jobId : JobIdVals, jobType : JobTypes, store : Stores, data : DataVals(pattern)]
  ELSE [jobId : {"j1"}, jobType : JobTypes, store : {"s1"}, data : DataVals(pattern)]

NoJob ==
  [state |-> "none", attemptsMade |-> 0, payload |-> NoPayload, returnvalue |-> NoData,
   discarded |-> FALSE, retried |-> FALSE, ctx |-> ""]

Init ==
  /\ msg = [r \in Slots |-> NoMsg]
  /\ pc = [r \in Slots |-> "idle"]
  /\ reply = [r \in Slots |-> NoReply]
  /\ rjob = [r \in Slots |-> 0]
  /\ ops = [o \in Owners |-> NoOp]
  /\ contexts = {}
  /\ jobs = [j \in QJobs |-> NoJob]
  /\ waitq = << >>
  /\ cronRuns = 0
  /\ manualRetries = 0
  /\ fan = FanIdle
  /\ ord = OrdIdle
  /\ reg = RegIdle
  /\ pag = PagIdle
  /\ ext = ExtIdle
  /\ det = DetIdle
  /\ act = ActIdle
  /\ prc = PrcIdle
  /\ sel = SelIdle
  /\ hom = HomIdle
  /\ boot = BootIdle
  /\ dlv = DlvIdle

\* -------------------------------------------------- the pool, as ops use it
\* loginToOnchSite opens the context, releaseContext closes it
PoolAfter(old, new) ==
  IF new.releases > old.releases THEN contexts \ {new.ctx}
  ELSE IF new.acquired /\ ~old.acquired THEN contexts \cup {new.ctx}
  ELSE contexts

StepOp(o, new) ==
  /\ ops' = [ops EXCEPT ![o] = new]
  /\ contexts' = PoolAfter(ops[o], new)

\* ------------------------------------------------ crawler service: actions
OpLogin(o) ==
  /\ ops[o].pc = "login"
  /\ \E ok \in BOOLEAN : StepOp(o, IF ok THEN LoginOk(ops[o]) ELSE LoginFailed(ops[o]))
  /\ UNCHANGED <<msg, pc, reply, rjob, jobs, waitq, cronRuns, manualRetries, fan, ord, reg, pag, ext, det, act, prc, sel, hom, boot, dlv>>

OpList(o) ==
  /\ ops[o].pc = "list"
  /\ \E ok \in BOOLEAN : StepOp(o, IF ok THEN ListOk(ops[o]) ELSE ListFailed(ops[o]))
  /\ UNCHANGED <<msg, pc, reply, rjob, jobs, waitq, cronRuns, manualRetries, fan, ord, reg, pag, ext, det, act, prc, sel, hom, boot, dlv>>

OpWork(o) ==
  /\ ops[o].pc = "work"
  /\ \/ \E res \in WorkResults(ops[o]) : StepOp(o, WorkOk(ops[o], res))
     \/ StepOp(o, WorkFailed(ops[o]))
  /\ UNCHANGED <<msg, pc, reply, rjob, jobs, waitq, cronRuns, manualRetries, fan, ord, reg, pag, ext, det, act, prc, sel, hom, boot, dlv>>

\* ------------------------------------------------------- queue: helpers
Created == {j \in QJobs : jobs[j].state # "none"}
ActiveJobs == {j \in QJobs : jobs[j].state = "active"}
Adding == {r \in Slots : pc[r] = "adding"}
Without(q, j) == SelectSeq(q, LAMBDA x : x # j)

\* job.finished(): the reply of a slot that awaits job j, once j is terminal
FinishedReply(job) ==
  IF job.state = "completed" THEN Envelope("success", job.returnvalue, "")
  ELSE Thrown("job failed")

\* the page sources a request can meet
Sites(pattern) ==
  IF pattern = "crawlingOnchSoldoutProducts" THEN SoldoutSites ELSE {NoSite}

\* ---------------------------------------------- dispatcher: processMessage
\* processMessage up to its first await, for a message whose pattern is
\* among those the senders use
Receive(r, sent) ==
  /\ pc[r] \in {"idle", "done"}
  /\ \E pattern \in sent : \E p \in Payloads(pattern) : \E site \in Sites(pattern) :
       /\ pattern \in QueuePatterns => Cardinality(Created) + Cardinality(Adding) < MaxJobs
       /\ msg' = [msg EXCEPT ![r] = [pattern |-> pattern, payload |-> p]]
       /\ rjob' = [rjob EXCEPT ![r] = 0]
       /\ pc' = [pc EXCEPT ![r] =
            CASE pattern \in RepoPatterns -> "repo"
              [] pattern \in QueueReadPatterns -> "queueRead"
              [] pattern \in BrowserPatterns -> "op"
              [] pattern \in QueuePatterns -> "adding"
              [] pattern \in RemovePatterns -> "removing"
              [] OTHER -> "done"]
       /\ reply' = [reply EXCEPT ![r] =
            IF pattern \in RecognizedPatterns THEN NoReply ELSE UnknownReply(pattern)]
       /\ ops' = [ops EXCEPT ![ReqOwner(r)] =
            IF pattern \notin BrowserPatterns THEN NoOp
            ELSE IF pattern = "deleteProducts" /\ p.data = 0
              THEN DeleteNothing(NewOp(pattern, CallArgs(pattern, p), NoSite))
            ELSE NewOp(pattern, CallArgs(pattern, p), site)]
  /\ UNCHANGED <<contexts, jobs, waitq, cronRuns, manualRetries, fan, ord, reg, pag, ext, det, act, prc, sel, hom, boot, dlv>>

\* clearOnchProducts, getProductByCode: the repository call settles
RepoDone(r) ==
  /\ pc[r] = "repo"
  /\ \E ok \in BOOLEAN :
       reply' = [reply EXCEPT ![r] =
         IF ~ok THEN Thrown("repository error")
         ELSE IF msg[r].pattern = "getProductByCode"
           THEN Envelope("success", [tag |-> "product", items |-> << >>], "")
         ELSE Envelope("success", NoData, "")]
  /\ pc' = [pc EXCEPT ![r] = "done"]
  /\ UNCHANGED <<msg, rjob, ops, contexts, jobs, waitq, cronRuns, manualRetries, fan, ord, reg, pag, ext, det, act, prc, sel, hom, boot, dlv>>

\* getStatus ... getAllJobs: the queue is read
QueueReadDone(r) ==
  /\ pc[r] = "queueRead"
  /\ reply' = [reply EXCEPT ![r] =
       Envelope("success", [tag |-> "queueinfo", items |-> << >>], "")]
  /\ pc' = [pc EXCEPT ![r] = "done"]
  /\ UNCHANGED <<msg, rjob, ops, contexts, jobs, waitq, cronRuns, manualRetries, fan, ord, reg, pag, ext, det, act, prc, sel, hom, boot, dlv>>

\* what the case of a browser pattern does with the settled service call
DirectReply(pattern, o) ==
  IF o.outcome = "threw" THEN Thrown("handler error")
  ELSE CASE pattern = "deleteProducts" -> UndefinedReply          \* break
    [] pattern = "crawlOnchRegisteredProducts" -> Envelope("success", NoData, "")
    [] OTHER -> Envelope("success", o.res, "")

ReplyDirect(r) ==
  /\ pc[r] = "op"
  /\ ops[ReqOwner(r)].pc = "done"
  /\ reply' = [reply EXCEPT ![r] = DirectReply(msg[r].pattern, ops[ReqOwner(r)])]
  /\ pc' = [pc EXCEPT ![r] = "done"]
  /\ UNCHANGED <<msg, rjob, ops, contexts, jobs, waitq, cronRuns, manualRetries, fan, ord, reg, pag, ext, det, act, prc, sel, hom, boot, dlv>>

\* productRegistration: queue.add settles, job.finished() is awaited
EnqueueDone(r) ==
  /\ pc[r] = "adding"
  /\ LET j == Cardinality(Created) + 1 IN
       /\ j \in QJobs
       /\ jobs' = [jobs EXCEPT ![j] =
            [NoJob EXCEPT !.state = "waiting", !.payload = msg[r].payload]]
       /\ waitq' = Append(waitq, j)
       /\ rjob' = [rjob EXCEPT ![r] = j]
  /\ pc' = [pc EXCEPT ![r] = "awaitJob"]
  /\ UNCHANGED <<msg, reply, ops, contexts, cronRuns, manualRetries, fan, ord, reg, pag, ext, det, act, prc, sel, hom, boot, dlv>>

\* --------------------------------------------------- OnchService.removeJob
\* job.remove() rejects for a job a worker holds the lock of; otherwise the
\* job is deleted, and job.isActive() of a deleted job is false
RemoveOutcome(job) ==
  IF job.state \in {"none", "removed"} THEN "absent"
  ELSE IF job.state = "active" THEN "threw"
  ELSE "removed"

\* a deleted job: its id stays used, its data is gone
RemovedJob == [NoJob EXCEPT !.state = "removed"]

\* deleteJob: removeJob(payload.data) settles
RemoveJob(r) ==
  /\ pc[r] = "removing"
  /\ LET j == msg[r].payload.data
         out == RemoveOutcome(jobs[j])
     IN /\ jobs' = IF out = "removed" THEN [jobs EXCEPT ![j] = RemovedJob] ELSE jobs
        /\ waitq' = IF out = "removed" THEN Without(waitq, j) ELSE waitq
        /\ reply' = [reply EXCEPT ![r] =
             IF out = "threw" THEN Thrown("Could not remove job")
             ELSE Envelope("success", NoData, "")]
  /\ pc' = [pc EXCEPT ![r] = "done"]
  /\ UNCHANGED <<msg, rjob, ops, contexts, cronRuns, manualRetries, fan, ord, reg, pag, ext, det, act, prc, sel, hom, boot, dlv>>

\* OnchService.retryJob: job.retry() puts a failed job back on the wait list
RetryJob(j) ==
  /\ manualRetries < MaxManualRetries
  /\ jobs[j].state = "failed"
  /\ jobs' = [jobs EXCEPT ![j].state = "waiting", ![j].retried = TRUE]
  /\ waitq' = Append(waitq, j)
  /\ manualRetries' = manualRetries + 1
  /\ UNCHANGED <<msg, pc, reply, rjob, ops, contexts, cronRuns, fan, ord, reg, pag, ext, det, act, prc, sel, hom, boot, dlv>>

\* ------------------------------------------- the queue and its one worker
\* a worker that takes a job whenever one waits
CanStartAlways == TRUE

\* a worker slot is free
CanStart == Cardinality(ActiveJobs) < Concurrency

\* the worker takes the oldest waiting job and calls the processor, which
\* calls onchCrawlerService.productRegistration with the job's payload
StartJob(j) ==
  /\ CanStart
  /\ waitq # << >>
  /\ j = Head(waitq)
  /\ waitq' = Tail(waitq)
  /\ LET call == NewOp("productRegistration",
                       CallArgs("productRegistration", jobs[j].payload), NoSite)
     IN /\ jobs' = [jobs EXCEPT ![j].state = "active", ![j].ctx = call.ctx]
        /\ ops' = [ops EXCEPT ![JobOwner(j)] = call]
  /\ UNCHANGED <<msg, pc, reply, rjob, contexts, cronRuns, manualRetries, fan, ord, reg, pag, ext, det, act, prc, sel, hom, boot, dlv>>

\* what the processor hands to the queue: the service call threw or the
\* summary could not be emitted -> it throws; otherwise it returns no value
HandlerReturn(o, emitOk) ==
  IF o.outcome = "threw" \/ ~emitOk THEN [threw |-> TRUE, value |-> NoData]
  ELSE [threw |-> FALSE, value |-> [tag |-> "undefined", items |-> << >>]]

\* a retry decision that allows one attempt too many
SettledOffByOne(job, h) ==
  IF ~h.threw THEN [job EXCEPT !.state = "completed", !.returnvalue = h.value]
  ELSE LET am == job.attemptsMade + 1 IN
       IF am <= Attempts /\ ~job.discarded
       THEN [job EXCEPT !.state = "delayed", !.attemptsMade = am]
       ELSE [job EXCEPT !.state = "failed", !.attemptsMade = am]

\* the job after its handler settled
Settled(job, h) ==
  IF ~h.threw THEN [job EXCEPT !.state = "completed", !.returnvalue = h.value]
  ELSE LET am == job.attemptsMade + 1 IN
       IF am < Attempts /\ ~job.discarded
       THEN [job EXCEPT !.state = "delayed", !.attemptsMade = am]
       ELSE [job EXCEPT !.state = "failed", !.attemptsMade = am]

JobSettle(j) ==
  /\ jobs[j].state = "active"
  /\ ops[JobOwner(j)].pc = "done"
  /\ \E emitOk \in BOOLEAN :
       LET after == Settled(jobs[j], HandlerReturn(ops[JobOwner(j)], emitOk))
           answered == {r \in Slots : pc[r] = "awaitJob" /\ rjob[r] = j
                                      /\ after.state \in {"completed", "failed"}}
       IN /\ ops[JobOwner(j)].outcome = "threw" => emitOk
          /\ jobs' = [jobs EXCEPT ![j] = after]
          /\ reply' = [r \in Slots |-> IF r \in answered THEN FinishedReply(after) ELSE reply[r]]
          /\ pc' = [r \in Slots |-> IF r \in answered THEN "done" ELSE pc[r]]
  /\ ops' = [ops EXCEPT ![JobOwner(j)] = NoOp]
  /\ UNCHANGED <<msg, rjob, contexts, waitq, cronRuns, manualRetries, fan, ord, reg, pag, ext, det, act, prc, sel, hom, boot, dlv>>

\* the backoff delay of a retried job has passed
PromoteDelayed(j) ==
  /\ jobs[j].state = "delayed"
  /\ jobs' = [jobs EXCEPT ![j].state = "waiting"]
  /\ waitq' = Append(waitq, j)
  /\ UNCHANGED <<msg, pc, reply, rjob, ops, contexts, cronRuns, manualRetries, fan, ord, reg, pag, ext, det, act, prc, sel, hom, boot, dlv>>

\* ------------------------------------------ OnchService.requestNotification
CronTick ==
  /\ cronRuns < MaxCron
  /\ ops[CronOwner].pc = "none"
  /\ cronRuns' = cronRuns + 1
  /\ ops' = [ops EXCEPT ![CronOwner] =
       NewOp("requestNotification",
             [store |-> CronStore, jobId |-> CronJobId(cronRuns + 1), jobType |-> "NOTI"],
             NoSite)]
  /\ UNCHANGED <<msg, pc, reply, rjob, contexts, jobs, waitq, manualRetries, fan, ord, reg, pag, ext, det, act, prc, sel, hom, boot, dlv>>

\* the cron method ends: an error is logged, a notification is emitted
CronEnd ==
  /\ ops[CronOwner].pc = "done"
  /\ ops' = [ops EXCEPT ![CronOwner] = NoOp]
  /\ UNCHANGED <<msg, pc, reply, rjob, contexts, jobs, waitq, cronRuns, manualRetries, fan, ord, reg, pag, ext, det, act, prc, sel, hom, boot, dlv>>

\* ------------------------------------------------------------ specification
\* the work of the queue and of the crawler service calls in progress
Engine ==
  \/ \E j \in QJobs : StartJob(j)
  \/ \E j \in QJobs : JobSettle(j)
  \/ \E j \in QJobs : PromoteDelayed(j)
  \/ \E o \in Owners : OpLogin(o)
  \/ \E o \in Owners : OpWork(o)

\* Spec: a sender that waits for each reply before it sends the next message,
\* of any pattern; the queue and the cron method run beside it.
FirstSlot == CHOOSE r \in Slots : \A s \in Slots : r <= s
Next ==
  \/ Receive(FirstSlot, Patterns)
  \/ RepoDone(FirstSlot)
  \/ QueueReadDone(FirstSlot)
  \/ ReplyDirect(FirstSlot)
  \/ EnqueueDone(FirstSlot)
  \/ RemoveJob(FirstSlot)
  \/ OpList(ReqOwner(FirstSlot))
  \/ Engine
  \/ CronTick
  \/ CronEnd

Spec == Init /\ [][Next]_vars

\* SpecQueue: senders that use every slot at once, for the messages that
\* reach the queue (productRegistration, deleteJob), and retryJob.
NextQueue ==
  \/ \E r \in Slots : Receive(r, QueuePatterns \cup RemovePatterns)
  \/ \E r \in Slots : EnqueueDone(r)
  \/ \E r \in Slots : RemoveJob(r)
  \/ \E j \in QJobs : RetryJob(j)
  \/ Engine

SpecQueue == Init /\ [][NextQueue]_vars

\* ------------------------------------------- pages fanned out of a context
\* deleteProducts -> performBatchDeletion, and crawlOnchDetailProducts
MaxCodes == 3          \* product codes (ids) one fan-out run is given
PARALLEL_WORKERS == 2  \* performBatchDeletion
CONCURRENT_PAGES == 2  \* crawlOnchDetailProducts

FanOps == {"deleteProducts", "crawlOnchDetailProducts"}

CeilDiv(a, b) == (a + b - 1) \div b
Min(a, b) == IF a < b THEN a ELSE b

\* the slices cut with productsPerWorker rounded down
WorkerBatchesFloor(total) ==
  LET per == total \div PARALLEL_WORKERS
      size(i) == Min((i + 1) * per, total) - i * per
  IN [i \in {k \in 0..(PARALLEL_WORKERS - 1) : k * per < total} |-> size(i)]

\* workerBatches: the sizes of the slices of the product codes, one per worker
\* that has a non-empty slice
WorkerBatches(total) ==
  LET per == CeilDiv(total, PARALLEL_WORKERS)
      size(i) == Min((i + 1) * per, total) - i * per
  IN [i \in {k \in 0..(PARALLEL_WORKERS - 1) : k * per < total} |-> size(i)]

\* startIndex of the slice of worker i
WorkerStart(total, i) == i * CeilDiv(total, PARALLEL_WORKERS)

\* a run as it is entered; handled counts, per index of productCodes, the
\* calls of deleteSingleProduct; pageIds are the ids pushed so far, open the pages
\* that exist and were not released, leaked the pages that were open when
\* releaseContext was called
NewFan(op, total) ==
  [pc |-> IF op = "deleteProducts" THEN "login" ELSE "createPages",
   op |-> op, total |-> total, pageIds |-> << >>, open |-> {},
   batches |-> << >>, handled |-> [k \in 0..(total - 1) |-> 0],
   successCount |-> 0, failedCount |-> 0,
   contextReleased |-> FALSE, leaked |-> {}, threw |-> FALSE]

FanStart ==
  /\ fan.pc = "idle"
  /\ \E op \in FanOps : \E total \in 1..MaxCodes : fan' = NewFan(op, total)
  /\ UNCHANGED <<service, ord, reg, pag, ext, det, act, prc, sel, hom, boot, dlv>>

\* performBatchDeletion: pageIds.push(firstPageId); loginToOnchSite
FanLogin ==
  /\ fan.pc = "login"
  /\ \E ok \in BOOLEAN :
       fan' = IF ok THEN [fan EXCEPT !.pageIds = <<0>>, !.open = {0}, !.pc = "createPage"]
              ELSE [fan EXCEPT !.pageIds = <<0>>, !.threw = TRUE, !.pc = "releasePages"]
  /\ UNCHANGED <<service, ord, reg, pag, ext, det, act, prc, sel, hom, boot, dlv>>

\* performBatchDeletion: pageIds.push(pageId); createPage, for each further
\* worker; after the last one the batches are cut
FanCreatePage ==
  /\ fan.pc = "createPage"
  /\ LET i == Len(fan.pageIds)
         ids == Append(fan.pageIds, i)
     IN \E ok \in BOOLEAN :
          fan' = IF ~ok THEN [fan EXCEPT !.pageIds = ids, !.threw = TRUE, !.pc = "releasePages"]
                 ELSE [fan EXCEPT !.pageIds = ids, !.open = @ \cup {i},
                                  !.batches = IF i + 1 = PARALLEL_WORKERS
                                              THEN WorkerBatches(fan.total) ELSE @,
                                  !.pc = IF i + 1 = PARALLEL_WORKERS THEN "delete" ELSE "createPage"]
  /\ UNCHANGED <<service, ord, reg, pag, ext, det, act, prc, sel, hom, boot, dlv>>

\* deleteProductBatch of one worker handles its next product code; an error
\* counts as a failure
FanDeleteOne ==
  /\ fan.pc = "delete"
  /\ \E w \in DOMAIN fan.batches : \E deleted \in BOOLEAN :
       /\ fan.batches[w] > 0
       /\ fan' = [fan EXCEPT !.batches[w] = @ - 1,
                             !.handled[WorkerStart(fan.total, w)
                                       + WorkerBatches(fan.total)[w] - fan.batches[w]] = @ + 1,
                             !.successCount = IF deleted THEN @ + 1 ELSE @,
                             !.failedCount = IF deleted THEN @ ELSE @ + 1]
  /\ UNCHANGED <<service, ord, reg, pag, ext, det, act, prc, sel, hom, boot, dlv>>

\* Promise.all(workerPromises) settles
FanDeleteDone ==
  /\ fan.pc = "delete"
  /\ \A w \in DOMAIN fan.batches : fan.batches[w] = 0
  /\ fan' = [fan EXCEPT !.pc = "releasePages"]
  /\ UNCHANGED <<service, ord, reg, pag, ext, det, act, prc, sel, hom, boot, dlv>>

\* performBatchDeletion, finally: releasePage for every id of pageIds
FanReleasePages ==
  /\ fan.pc = "releasePages"
  /\ fan' = [fan EXCEPT !.open = @ \ {fan.pageIds[k] : k \in 1..Len(fan.pageIds)},
                        !.pc = "releaseContext"]
  /\ UNCHANGED <<service, ord, reg, pag, ext, det, act, prc, sel, hom, boot, dlv>>

\* crawlOnchDetailProducts: createParallelPages(store, jobId, CONCURRENT_PAGES)
FanCreateParallelPages ==
  /\ fan.pc = "createPages"
  /\ \E ok \in BOOLEAN :
       fan' = IF ok THEN [fan EXCEPT !.open = 1..CONCURRENT_PAGES, !.pc = "crawl"]
              ELSE [fan EXCEPT !.threw = TRUE, !.pc = "releaseContext"]
  /\ UNCHANGED <<service, ord, reg, pag, ext, det, act, prc, sel, hom, boot, dlv>>

\* processItemsInParallel: one product id is extracted (or fails), or saving
\* a batch rejects and the call throws
FanCrawlOne ==
  /\ fan.pc = "crawl"
  /\ \/ /\ fan.successCount + fan.failedCount < fan.total
        /\ \E extracted \in BOOLEAN :
             fan' = [fan EXCEPT !.successCount = IF extracted THEN @ + 1 ELSE @,
                                !.failedCount = IF extracted THEN @ ELSE @ + 1]
     \/ fan' = [fan EXCEPT !.threw = TRUE, !.pc = "releaseContext"]
     \/ /\ fan.successCount + fan.failedCount = fan.total
        /\ fan' = [fan EXCEPT !.pc = "releaseContext"]
  /\ UNCHANGED <<service, ord, reg, pag, ext, det, act, prc, sel, hom, boot, dlv>>

\* finally of deleteProducts and of crawlOnchDetailProducts
FanReleaseContext ==
  /\ fan.pc = "releaseContext"
  /\ fan' = [fan EXCEPT !.contextReleased = TRUE, !.leaked = fan.open, !.pc = "done"]
  /\ UNCHANGED <<service, ord, reg, pag, ext, det, act, prc, sel, hom, boot, dlv>>

NextFan ==
  \/ FanStart \/ FanLogin \/ FanCreatePage \/ FanDeleteOne \/ FanDeleteDone
  \/ FanReleasePages \/ FanCreateParallelPages \/ FanCrawlOne \/ FanReleaseContext

SpecFan == Init /\ [][NextFan]_vars

\* ------------------------------------ OnchCrawlerService.automaticOrdering
\* the loop over the orders, after the login
MaxOrders == 2         \* orders of one call
MaxItems == 3          \* items of one order

\* an order item: whether an enabled option of the page contains its option
\* text, and its count
GoodItem == [matches |-> TRUE, count |-> 1]
NoOptionItem == [matches |-> FALSE, count |-> 1]
ZeroCountItem == [matches |-> TRUE, count |-> 0]
ItemKinds == {GoodItem, NoOptionItem, ZeroCountItem}
ItemLists == UNION {[1..n -> ItemKinds] : n \in 0..MaxItems}

FullReceiver ==
  [receiverName |-> "kim", receiverMobile |-> "0501", postCode |-> "04524", addr |-> "seoul"]
Receivers ==
  {FullReceiver,
   [FullReceiver EXCEPT !.receiverName = ""], [FullReceiver EXCEPT !.receiverMobile = ""],
   [FullReceiver EXCEPT !.postCode = ""], [FullReceiver EXCEPT !.addr = ""]}

Orders == [items : ItemLists, receiver : Receivers]
NoOrder == [items |-> << >>, receiver |-> FullReceiver]

\* setItemQuantity: if (!quantity || quantity <= 0) throw
QuantityOk(quantity) == ~(quantity = 0 \/ quantity <= 0)
\* fillOrderDetails: the two checks on the receiver
ReceiverOk(rcv) == ~(rcv.receiverName = "" \/ rcv.receiverMobile = "")
AddressOk(rcv) == ~(rcv.postCode = "" \/ rcv.addr = "")

\* what is kept of an order the loop is through with
Summary(order, tried, submitted) ==
  [items |-> Len(order.items), tried |-> tried, submitted |-> submitted,
   valid |-> /\ \A k \in 1..Len(order.items) : order.items[k].count > 0
             /\ order.receiver.receiverName # "" /\ order.receiver.receiverMobile # ""
             /\ order.receiver.postCode # "" /\ order.receiver.addr # ""]

OrdResult(orderId, status, error) == [orderId |-> orderId, status |-> status, error |-> error]

\* a call as it is entered with n orders
NewOrd(n) ==
  [pc |-> "next", n |-> n, i |-> 0, order |-> NoOrder, k |-> 0, results |-> << >>,
   seen |-> << >>, listeners |-> 0, dialogs |-> << >>, submitted |-> FALSE,
   steps |-> << >>, confirmed |-> FALSE, trace |-> << >>,
   returned |-> "none"]

\* the steps the loop ran for the order it is through with, whether the site
\* raised its confirmation, and the status of the result
StepsRun(o, status) == [steps |-> o.steps, confirmed |-> o.confirmed, status |-> status]

\* results.push({status: 'failed', ..., error}) in the catch of one order
OrderFailed(o, error) ==
  [o EXCEPT !.results = Append(@, OrdResult(o.i, "failed", error)),
            !.seen = Append(@, Summary(o.order, o.k, o.submitted)),
            !.trace = Append(@, StepsRun(o, "failed")),
            !.pc = "next"]

\* results.push({status: 'success', ...})
OrderSucceeded(o) ==
  [o EXCEPT !.results = Append(@, OrdResult(o.i, "success", "")),
            !.seen = Append(@, Summary(o.order, o.k, o.submitted)),
            !.trace = Append(@, StepsRun(o, "success")),
            !.pc = "next"]

OrdStart ==
  /\ ord.pc = "idle"
  /\ \E n \in 0..MaxOrders : ord' = NewOrd(n)
  /\ UNCHANGED <<service, fan, reg, pag, ext, det, act, prc, sel, hom, boot, dlv>>

\* the head of the for loop: order.items[0].vendorInventoryItemName is read
\* before the inner try, so an order without items throws to the outer catch
OrdNextOrder ==
  /\ ord.pc = "next"
  /\ ord.i < ord.n
  /\ \E order \in Orders :
       ord' = IF order.items = << >>
              THEN [ord EXCEPT !.i = @ + 1, !.order = NoOrder, !.k = 0, !.submitted = FALSE,
                               !.seen = Append(@, Summary(order, 0, FALSE)),
                               !.pc = "outerCatch"]
              ELSE [ord EXCEPT !.i = @ + 1, !.order = order, !.k = 0, !.submitted = FALSE,
                               !.steps = << >>, !.confirmed = FALSE, !.pc = "search"]
  /\ UNCHANGED <<service, fan, reg, pag, ext, det, act, prc, sel, hom, boot, dlv>>

\* searchProduct
OrdSearch ==
  /\ ord.pc = "search"
  /\ \E found \in BOOLEAN :
       LET at == [ord EXCEPT !.steps = Append(@, "Search")]
       IN ord' = IF found THEN [at EXCEPT !.pc = "select"] ELSE OrderFailed(at, "search")
  /\ UNCHANGED <<service, fan, reg, pag, ext, det, act, prc, sel, hom, boot, dlv>>

\* selectProductOption: one turn of its loop over the items of the order
OrdSelectOption ==
  /\ ord.pc = "select"
  /\ ord.k < Len(ord.order.items)
  /\ LET item == ord.order.items[ord.k + 1]
         at == [ord EXCEPT !.k = @ + 1, !.steps = Append(@, "SelectOption")]
         qty == [at EXCEPT !.steps = Append(@, "SetQuantity")]
     IN \E pageOk \in BOOLEAN :
          ord' = IF ~item.matches THEN OrderFailed(at, "option-not-found")
                 ELSE IF ~pageOk THEN OrderFailed(at, "page")
                 ELSE IF ~QuantityOk(item.count) THEN OrderFailed(qty, "quantity")
                 ELSE qty
  /\ UNCHANGED <<service, fan, reg, pag, ext, det, act, prc, sel, hom, boot, dlv>>

\* fillOrderDetails
OrdFillOrderDetails ==
  /\ ord.pc = "select"
  /\ ord.k = Len(ord.order.items)
  /\ \E pageOk \in BOOLEAN :
       LET at == [ord EXCEPT !.steps = Append(@, "FillAddress")]
       IN ord' = IF ~ReceiverOk(ord.order.receiver) THEN OrderFailed(at, "receiver")
                 ELSE IF ~AddressOk(ord.order.receiver) THEN OrderFailed(at, "address")
                 ELSE IF ~pageOk THEN OrderFailed(at, "page")
                 ELSE [at EXCEPT !.pc = "submit"]
  /\ UNCHANGED <<service, fan, reg, pag, ext, det, act, prc, sel, hom, boot, dlv>>

\* onchPage.once('dialog', accept); click('.btnOrderComplete'); wait; goto.
\* The click can fail before the site raises its confirmation, the site can
\* raise it or not; a dialog that is raised goes to every acceptor that is
\* registered, which removes them
OrdSubmit ==
  /\ ord.pc = "submit"
  /\ LET registered == ord.listeners + 1 IN
     \E outcome \in {"click-failed", "dialog", "no-dialog"} : \E loaded \in BOOLEAN :
       ord' =
         IF outcome = "click-failed"
         THEN OrderFailed([ord EXCEPT !.listeners = registered,
                                      !.steps = Append(@, "Submit")], "page")
         ELSE LET clicked ==
                    IF outcome = "dialog"
                    THEN [ord EXCEPT !.listeners = 0, !.dialogs = Append(@, registered),
                                     !.submitted = TRUE, !.confirmed = TRUE,
                                     !.steps = Append(@, "Submit")]
                    ELSE [ord EXCEPT !.listeners = registered, !.submitted = TRUE,
                                     !.steps = Append(@, "Submit")]
              IN IF loaded THEN OrderSucceeded(clicked) ELSE OrderFailed(clicked, "page")
  /\ UNCHANGED <<service, fan, reg, pag, ext, det, act, prc, sel, hom, boot, dlv>>

\* after the loop: releaseContext; return results
OrdReturn ==
  /\ ord.pc = "next"
  /\ ord.i = ord.n
  /\ ord' = [ord EXCEPT !.pc = "done", !.returned = "results"]
  /\ UNCHANGED <<service, fan, reg, pag, ext, det, act, prc, sel, hom, boot, dlv>>

\* the outer catch logs the error; the method ends without a return value
OrdOuterCatch ==
  /\ ord.pc = "outerCatch"
  /\ ord' = [ord EXCEPT !.pc = "done", !.returned = "undefined"]
  /\ UNCHANGED <<service, fan, reg, pag, ext, det, act, prc, sel, hom, boot, dlv>>

NextOrd ==
  \/ OrdStart \/ OrdNextOrder \/ OrdSearch \/ OrdSelectOption \/ OrdFillOrderDetails
  \/ OrdSubmit \/ OrdReturn \/ OrdOuterCatch

SpecOrd == Init /\ [][NextOrd]_vars

\* ---------------------------- ProductRegistrationProvider.processPages
MaxRepeat == 3         \* repeatCount of one registration run
MAX_RETRY_COUNT == 3   \* ProductRegistrationProvider.MAX_RETRY_COUNT

\* the alerts the site answers the transfer with
AlertSent == "sent"
AlertNoProducts == "select-a-product"      \* '상품을 선택해 주세요'
AlertSendFailed == "transfer-failed"       \* '상품 전송에 실패하였습니다'
Alerts == {AlertSent, AlertNoProducts, AlertSendFailed}

\* when the response with a rate-limit phrase arrives: not at all, while the
\* 5 s check loop runs, or after it while the alert is awaited
PhraseTimes == {"never", "in-window", "late"}

RegResult(page, success, alertMessage, errorMessage) ==
  [page |-> page, success |-> success, alertMessage |-> alertMessage,
   errorMessage |-> errorMessage]
NoRegResult == [page |-> 0, success |-> FALSE, alertMessage |-> "", errorMessage |-> ""]

\* a run as processPages is entered; notified counts the daily-limit
\* notifications emitted, resubmitted tells that the transfer was submitted
\* after one of them
NewReg(repeatCount) ==
  [pc |-> "loop", repeatCount |-> repeatCount, currentPage |-> 1, retryCount |-> 0,
   dailyLimitReached |-> FALSE, results |-> << >>,
   attempts |-> 0, threw |-> 0, lastError |-> "", log |-> << >>,
   observedOn |-> 0, navigatedAfter |-> FALSE, notified |-> 0, resubmitted |-> FALSE]

\* the messages of the errors an attempt can end with
ErrorGoto == "navigation failed"
ErrorSelector == "waiting for selector failed"
ErrorEmit == "emit rejected"
ErrorDialog == "alert dialog timeout"        \* '알럿 대화상자 타임아웃'

\* records the failure without its message
FailedResultNoMessage(page, message) == RegResult(page, FALSE, "", "")

\* processPage, catch: the failed result carries error.message
FailedResult(page, message) == RegResult(page, FALSE, "", message)

\* one better than the bound: records the failure one throw too late
RetryExhaustedLate(retryCount) == retryCount > MAX_RETRY_COUNT

\* processPage, catch: if (retryCount >= this.MAX_RETRY_COUNT)
RetryExhausted(retryCount) == retryCount >= MAX_RETRY_COUNT

\* processPage returned to processPages: the flags are read, the result is
\* pushed, currentPage++ (or break)
PageReturned(r, result, limit, noMore) ==
  [r EXCEPT !.dailyLimitReached = @ \/ limit,
            !.results = IF result = NoRegResult THEN @ ELSE Append(@, result),
            !.log = Append(@, [page |-> r.currentPage, attempts |-> r.attempts,
                               threw |-> r.threw, lastError |-> r.lastError,
                               recorded |-> IF result = NoRegResult THEN "none"
                                            ELSE IF result.success THEN "success"
                                            ELSE "failed"]),
            !.attempts = 0, !.threw = 0, !.retryCount = 0, !.lastError = "",
            !.currentPage = @ + 1,
            !.pc = IF noMore THEN "done" ELSE "loop"]

\* processPage, catch: retryCount++; record the failure at the bound, else
\* go round the while loop, which ends without a result when it is exhausted
PageThrew(r, message) ==
  LET rc == r.retryCount + 1
      at == [r EXCEPT !.retryCount = rc, !.threw = @ + 1, !.lastError = message]
  IN IF RetryExhausted(rc)
     THEN PageReturned(at, FailedResult(r.currentPage, message), FALSE, FALSE)
     ELSE IF rc < MAX_RETRY_COUNT THEN [at EXCEPT !.pc = "goto"]
     ELSE PageReturned(at, NoRegResult, FALSE, FALSE)

\* the flag a rate-limit phrase leaves in the run
Observed(r, phrase) ==
  IF phrase # "never" /\ r.observedOn = 0 THEN [r EXCEPT !.observedOn = r.currentPage] ELSE r

RegStart ==
  /\ reg.pc = "idle"
  /\ \E repeatCount \in 1..MaxRepeat : reg' = NewReg(repeatCount)
  /\ UNCHANGED <<service, fan, ord, pag, ext, det, act, prc, sel, hom, boot, dlv>>

\* processPages: the head of the for loop
RegLoopHead ==
  /\ reg.pc = "loop"
  /\ reg' = IF reg.currentPage > reg.repeatCount \/ reg.dailyLimitReached
            THEN [reg EXCEPT !.pc = "done"]
            ELSE [reg EXCEPT !.pc = "goto"]
  /\ UNCHANGED <<service, fan, ord, pag, ext, det, act, prc, sel, hom, boot, dlv>>

\* processPage: page.goto(pageUrl) of one attempt
RegGoto ==
  /\ reg.pc = "goto"
  /\ LET at == [reg EXCEPT !.attempts = @ + 1,
                           !.navigatedAfter =
                              @ \/ (reg.observedOn # 0 /\ reg.observedOn < reg.currentPage)]
     IN \E loaded \in BOOLEAN :
          reg' = IF loaded THEN [at EXCEPT !.pc = "action"] ELSE PageThrew(at, ErrorGoto)
  /\ UNCHANGED <<service, fan, ord, pag, ext, det, act, prc, sel, hom, boot, dlv>>

\* performProductRegistrationAction and what processPage makes of its result
RegAction ==
  /\ reg.pc = "action"
  /\ \E clicked \in BOOLEAN : \E phrase \in PhraseTimes : \E emitted \in BOOLEAN :
     \E alert \in Alerts \cup {"timeout"} :
       reg' =
         IF ~clicked THEN PageThrew(reg, ErrorSelector)
         ELSE LET limit == phrase = "in-window"
                  \* the transfer is submitted; the notification is emitted
                  \* when the check loop finds the flag set
                  seen == [Observed(reg, phrase) EXCEPT
                             !.resubmitted = @ \/ reg.notified > 0,
                             !.notified = IF limit /\ emitted THEN @ + 1 ELSE @]
              IN IF limit /\ ~emitted THEN PageThrew(seen, ErrorEmit)
                 ELSE IF alert = "timeout" THEN PageThrew(seen, ErrorDialog)
                 ELSE IF limit THEN PageReturned(seen, NoRegResult, TRUE, FALSE)
                 ELSE IF alert = AlertNoProducts
                   THEN PageReturned(seen, NoRegResult, FALSE, TRUE)
                 ELSE IF alert = AlertSendFailed
                   THEN PageReturned(seen, RegResult(reg.currentPage, FALSE, alert, ""),
                                     FALSE, FALSE)
                 ELSE PageReturned(seen, RegResult(reg.currentPage, TRUE, alert, ""),
                                   FALSE, FALSE)
  /\ UNCHANGED <<service, fan, ord, pag, ext, det, act, prc, sel, hom, boot, dlv>>

NextReg == RegStart \/ RegLoopHead \/ RegGoto \/ RegAction

SpecReg == Init /\ [][NextReg]_vars

\* ------------------------- crawlProductList and extractDeliveryData
MaxPages == 3      \* pages a page source describes; the pages after them are empty
MaxPerPage == 2    \* records on one page

ListKinds == {"catalog", "delivery"}

\* one page of a source: how many records it shows, whether it carries the
\* link to the next page, and whether navigating to it succeeds
PageSpecs == [count : 0..MaxPerPage, link : BOOLEAN, navOk : BOOLEAN]
PageSources == UNION {[1..n -> PageSpecs] : n \in 1..MaxPages}
PastTheEnd == [count |-> 0, link |-> FALSE, navOk |-> TRUE]
PageAt(source, p) == IF p \in 1..Len(source) THEN source[p] ELSE PastTheEnd

\* the records a read of page p gives, in the order of the page
RecordsOf(source, p) == [k \in 1..PageAt(source, p).count |-> [page |-> p, k |-> k]]

\* adds a page's records in front of the collected ones
AccumulateInFront(acc, records) == records \o acc

\* allProductIds.push(...productIds) / onchResults.concat(pageData)
Accumulate(acc, records) == acc \o records

\* a goto that fails returns what was collected instead of throwing
CatalogGotoFailedReturns(p) ==
  [p EXCEPT !.pc = "done", !.outcome = "returned", !.returned = p.acc,
            !.failedAt = p.currentPage]

\* crawlProductList has no try: a rejected page.goto leaves the method
CatalogGotoFailed(p) ==
  [p EXCEPT !.pc = "done", !.outcome = "threw", !.failedAt = p.currentPage]

\* the loop as it is entered: the catalog loop navigates to page 1 itself,
\* the delivery loop starts on the page its caller opened
NewPag(kind, source) ==
  [pc |-> IF kind = "catalog" THEN "goto" ELSE "extract",
   kind |-> kind, source |-> source, currentPage |-> 1,
   acc |-> << >>, fetched |-> << >>, navs |-> << >>, failedAt |-> 0,
   outcome |-> "running", returned |-> << >>]

PagStart ==
  /\ pag.pc = "idle"
  /\ \E kind \in ListKinds : \E source \in PageSources : pag' = NewPag(kind, source)
  /\ UNCHANGED <<service, fan, ord, reg, ext, det, act, prc, sel, hom, boot, dlv>>

\* crawlProductList: page.goto(...&page=${currentPage})
PagGoto ==
  /\ pag.pc = "goto"
  /\ LET at == [pag EXCEPT !.navs = Append(@, pag.currentPage)]
     IN pag' = IF PageAt(pag.source, pag.currentPage).navOk
               THEN [at EXCEPT !.pc = "extract"]
               ELSE CatalogGotoFailed(at)
  /\ UNCHANGED <<service, fan, ord, reg, ext, det, act, prc, sel, hom, boot, dlv>>

\* the read of the current page and the test for an empty page
PagExtract ==
  /\ pag.pc = "extract"
  /\ LET records == RecordsOf(pag.source, pag.currentPage)
         at == [pag EXCEPT !.fetched = Append(@, pag.currentPage)]
     IN pag' = IF Len(records) = 0
               THEN [at EXCEPT !.pc = "done", !.outcome = "returned", !.returned = pag.acc]
               ELSE IF pag.kind = "catalog"
               THEN [at EXCEPT !.acc = Accumulate(@, records),
                               !.currentPage = @ + 1, !.pc = "goto"]
               ELSE [at EXCEPT !.acc = Accumulate(@, records), !.pc = "move"]
  /\ UNCHANGED <<service, fan, ord, reg, ext, det, act, prc, sel, hom, boot, dlv>>

\* extractDeliveryData: moveToNextPage and what the loop makes of its answer
PagMoveToNextPage ==
  /\ pag.pc = "move"
  /\ LET next == pag.currentPage + 1
     IN pag' =
          IF ~PageAt(pag.source, pag.currentPage).link
          THEN [pag EXCEPT !.pc = "done", !.outcome = "returned", !.returned = pag.acc]
          ELSE IF ~PageAt(pag.source, next).navOk
          THEN [pag EXCEPT !.navs = Append(@, next), !.failedAt = next,
                           !.pc = "done", !.outcome = "returned", !.returned = pag.acc]
          ELSE [pag EXCEPT !.navs = Append(@, next), !.currentPage = next,
                           !.pc = "extract"]
  /\ UNCHANGED <<service, fan, ord, reg, ext, det, act, prc, sel, hom, boot, dlv>>

NextPag == PagStart \/ PagGoto \/ PagExtract \/ PagMoveToNextPage

SpecPag == Init /\ [][NextPag]_vars

\* ------------------------------ DeleteProductsProvider.extractProductCodes
MaxRecords == 2    \* sold-out records in one call

ProductCodes == {"CH0000001", "CH0000002"}

\* a string as far as the extraction can tell strings apart: the product code
\* it spells (NoCode: none) and whether other characters surround the code
\* (blanks in a code field, the product's title in a name)
NoCode == "no-code"
Absent == [code |-> NoCode, wrapped |-> FALSE]     \* undefined or ''
CodeStrings == [code : ProductCodes, wrapped : BOOLEAN]
NameStrings == [code : ProductCodes \cup {NoCode}, wrapped : {TRUE}]

SoldOutRecords ==
  [coupangProductCode : CodeStrings \cup {Absent},
   sellerProductName : NameStrings \cup {Absent},
   sellerManagementCode : CodeStrings \cup {Absent},
   externalVendorSkuCode : CodeStrings \cup {Absent}]

\* String.prototype.trim on a code field
Trim(str) == [str EXCEPT !.wrapped = FALSE]

\* sellerProductName.match(/CH\d{7}/)?.[0]
MatchCH(str) == IF str.code = NoCode THEN Absent ELSE [code |-> str.code, wrapped |-> FALSE]

\* Set.prototype.add on a set kept in insertion order
SetAdd(list, str) ==
  IF \E i \in 1..Len(list) : list[i] = str THEN list ELSE Append(list, str)

\* the loop body for one record: the first field that is present decides
AddCodeOf(list, product) ==
  IF product.coupangProductCode # Absent
    THEN SetAdd(list, Trim(product.coupangProductCode))
  ELSE IF product.sellerProductName # Absent
    THEN IF MatchCH(product.sellerProductName) # Absent
         THEN SetAdd(list, MatchCH(product.sellerProductName))
         ELSE list
  ELSE IF product.sellerManagementCode # Absent
    THEN SetAdd(list, Trim(product.sellerManagementCode))
  ELSE IF product.externalVendorSkuCode # Absent
    THEN SetAdd(list, product.externalVendorSkuCode)
  ELSE list

ExtStart ==
  /\ ext.pc = "idle"
  /\ \E n \in 0..MaxRecords : \E deleteProducts \in [1..n -> SoldOutRecords] :
       ext' = [pc |-> "loop", deleteProducts |-> deleteProducts, i |-> 1,
               productCodesSet |-> << >>, returned |-> << >>]
  /\ UNCHANGED <<service, fan, ord, reg, pag, det, act, prc, sel, hom, boot, dlv>>

ExtEach ==
  /\ ext.pc = "loop"
  /\ ext.i <= Len(ext.deleteProducts)
  /\ ext' = [ext EXCEPT !.productCodesSet = AddCodeOf(@, ext.deleteProducts[ext.i]),
                        !.i = @ + 1]
  /\ UNCHANGED <<service, fan, ord, reg, pag, det, act, prc, sel, hom, boot, dlv>>

ExtReturn ==
  /\ ext.pc = "loop"
  /\ ext.i > Len(ext.deleteProducts)
  /\ ext' = [ext EXCEPT !.pc = "done", !.returned = ext.productCodesSet]
  /\ UNCHANGED <<service, fan, ord, reg, pag, det, act, prc, sel, hom, boot, dlv>>

NextExt == ExtStart \/ ExtEach \/ ExtReturn

SpecExt == Init /\ [][NextExt]_vars

\* ------------------------------------------------ crawlOnchDetailProducts
MaxProducts == 123   \* product ids handed to one detail crawl
MaxBad == 1          \* the ids 1..MaxBad may be pages that cannot be extracted
MaxSaveFailures == 1 \* saveOnchProductDetails calls that reject in one crawl
BATCH_SIZE == 50     \* records per saveOnchProductDetails call

\* the two forms of the crawl: one page after the other on the login page, or
\* split into chunks over CONCURRENT_PAGES pages
DetVersions == {"sequential", "parallel"}

\* allProductIds.slice(i, i + CHUNK_SIZE) for i = 0, CHUNK_SIZE, ...
DetChunks(n, pages) ==
  LET size == CeilDiv(n, pages)
  IN IF n = 0 THEN << >>
     ELSE [c \in 1..CeilDiv(n, size) |->
             [k \in 1..(Min((c * size), n) - (c - 1) * size) |-> (c - 1) * size + k]]

NewWorker == [i |-> 1, local |-> << >>, st |-> "run"]

NewDet(version, n, bad) ==
  LET chunks == IF version = "sequential" THEN <<[k \in 1..n |-> k]>>
                ELSE DetChunks(n, CONCURRENT_PAGES)
  IN [pc |-> "fanout", version |-> version, n |-> n, bad |-> bad, chunks |-> chunks,
      w |-> [c \in 1..Len(chunks) |-> NewWorker],
      extracted |-> {}, sink |-> << >>, saveFailures |-> 0,
      pagesClosed |-> FALSE, contextReleased |-> FALSE,
      runningAtClose |-> {}, outcome |-> "running"]

\* what a saveOnchProductDetails call can do: resolve or reject
SaveOutcomes(d) == IF d.saveFailures < MaxSaveFailures THEN BOOLEAN ELSE {TRUE}

\* a save that rejected
Rejected(d) == [d EXCEPT !.saveFailures = @ + 1]

DetStart ==
  /\ det.pc = "idle"
  /\ \E version \in DetVersions : \E n \in 0..MaxProducts : \E bad \in SUBSET (1..MaxBad) :
       det' = NewDet(version, n, bad)
  /\ UNCHANGED <<service, fan, ord, reg, pag, ext, act, prc, sel, hom, boot, dlv>>

\* one pass of a page's loop over its chunk: goto, evaluate, push, and the
\* save when BATCH_SIZE records are waiting
DetCrawlOne(c) ==
  /\ det.pc \in {"fanout", "crashed"}
  /\ c \in 1..Len(det.chunks)
  /\ det.w[c].st = "run"
  /\ det.w[c].i <= Len(det.chunks[c])
  /\ LET id == det.chunks[c][det.w[c].i]
         extractable == id \notin det.bad /\ ~det.pagesClosed /\ ~det.contextReleased
         local == Append(det.w[c].local, id)
         next == [det EXCEPT !.w[c].i = @ + 1]
         pushed == [next EXCEPT !.w[c].local = local, !.extracted = @ \cup {id}]
     IN \E saved \in SaveOutcomes(det) :
          det' =
            IF ~extractable
            THEN IF det.version = "sequential"
                 THEN [det EXCEPT !.pc = "done", !.outcome = "threw", !.w[c].st = "failed"]
                 ELSE next
            ELSE IF Len(local) < BATCH_SIZE THEN pushed
            ELSE IF saved
            THEN [pushed EXCEPT !.sink = Append(@, local), !.w[c].local = << >>]
            ELSE IF det.version = "sequential"
            THEN [Rejected(pushed) EXCEPT !.pc = "done", !.outcome = "threw",
                                          !.w[c].st = "failed"]
            ELSE Rejected(pushed)
  /\ UNCHANGED <<service, fan, ord, reg, pag, ext, act, prc, sel, hom, boot, dlv>>

\* after the loop: the records still waiting are saved
DetFlushRest(c) ==
  /\ det.pc \in {"fanout", "crashed"}
  /\ c \in 1..Len(det.chunks)
  /\ det.w[c].st = "run"
  /\ det.w[c].i > Len(det.chunks[c])
  /\ \E saved \in SaveOutcomes(det) :
       det' =
         IF Len(det.w[c].local) = 0 THEN [det EXCEPT !.w[c].st = "done"]
         ELSE IF saved
         THEN [det EXCEPT !.sink = Append(@, det.w[c].local), !.w[c].local = << >>,
                          !.w[c].st = "done"]
         ELSE IF det.version = "sequential"
         THEN [Rejected(det) EXCEPT !.pc = "done", !.outcome = "threw", !.w[c].st = "failed"]
         ELSE [Rejected(det) EXCEPT !.w[c].st = "failed"]
  /\ UNCHANGED <<service, fan, ord, reg, pag, ext, act, prc, sel, hom, boot, dlv>>

\* every page's loop has ended: the pages are closed and the context released
DetJoin ==
  /\ det.pc = "fanout"
  /\ \A c \in 1..Len(det.chunks) : det.w[c].st = "done"
  /\ det' = [det EXCEPT !.pc = "done", !.outcome = "returned", !.pagesClosed = TRUE,
                        !.contextReleased = det.version = "parallel"]
  /\ UNCHANGED <<service, fan, ord, reg, pag, ext, act, prc, sel, hom, boot, dlv>>

\* Promise.all rejects with the first page that rejects: the catch closes the
\* added pages, releases the context and throws, whatever the other pages do
DetCatch ==
  /\ det.pc = "fanout"
  /\ det.version = "parallel"
  /\ \E c \in 1..Len(det.chunks) : det.w[c].st = "failed"
  /\ det' = [det EXCEPT !.pc = "crashed", !.outcome = "threw", !.pagesClosed = TRUE,
                        !.contextReleased = TRUE,
                        !.runningAtClose = {c \in 1..Len(det.chunks) : det.w[c].st = "run"}]
  /\ UNCHANGED <<service, fan, ord, reg, pag, ext, act, prc, sel, hom, boot, dlv>>

NextDet ==
  \/ DetStart
  \/ \E c \in 1..CONCURRENT_PAGES : DetCrawlOne(c) \/ DetFlushRest(c)
  \/ DetJoin
  \/ DetCatch

SpecDet == Init /\ [][NextDet]_vars

\* --------------------------------- MessageQueueProcessor.productRegistration
MaxResults == 2    \* page results one crawl returns
MaxCount == 1      \* the largest count an alert message states

\* an alert message as the four patterns read it: for each label the number
\* that follows its first occurrence, or NoMatch when the label is not there;
\* EmptyMessage is ''
NoMatch == -1
CountLabels == {"successCount", "failCount", "alreadyRegisteredCount", "duplicateNameCount"}
AlertTexts == [CountLabels -> {NoMatch} \cup 1..MaxCount]
EmptyMessage == [label \in CountLabels |-> NoMatch - 1]
AlertMessages == AlertTexts \cup {EmptyMessage}

PageResults == [success : BOOLEAN, alertMessage : AlertMessages]
ResultLists == UNION {[1..n -> PageResults] : n \in 0..MaxResults}

\* match ? parseInt(match[1], 10) : 0
CountOf(alertMessage, label) ==
  IF alertMessage[label] <= NoMatch THEN 0 ELSE alertMessage[label]

\* forgets the products with a duplicate name in the total
ExtractWithoutDuplicateNames(alertMessage) ==
  [successCount |-> CountOf(alertMessage, "successCount"),
   failCount |-> CountOf(alertMessage, "failCount"),
   alreadyRegisteredCount |-> CountOf(alertMessage, "alreadyRegisteredCount"),
   duplicateNameCount |-> CountOf(alertMessage, "duplicateNameCount"),
   totalProcessed |-> CountOf(alertMessage, "successCount") + CountOf(alertMessage, "failCount")
                        + CountOf(alertMessage, "alreadyRegisteredCount")]

extractRegistrationCounts(alertMessage) ==
  [successCount |-> CountOf(alertMessage, "successCount"),
   failCount |-> CountOf(alertMessage, "failCount"),
   alreadyRegisteredCount |-> CountOf(alertMessage, "alreadyRegisteredCount"),
   duplicateNameCount |-> CountOf(alertMessage, "duplicateNameCount"),
   totalProcessed |-> CountOf(alertMessage, "successCount") + CountOf(alertMessage, "failCount")
                        + CountOf(alertMessage, "alreadyRegisteredCount")
                        + CountOf(alertMessage, "duplicateNameCount")]

NewSummary ==
  [successCount |-> 0, failCount |-> 0, alreadyRegisteredCount |-> 0,
   duplicateNameCount |-> 0, failedPage |-> 0, totalProcessed |-> 0]

\* the body of results.forEach
AddResult(summary, result) ==
  LET counted == result.success /\ result.alertMessage # EmptyMessage
      counts == extractRegistrationCounts(result.alertMessage)
      added == IF counted
               THEN [summary EXCEPT !.successCount = @ + counts.successCount,
                                    !.failCount = @ + counts.failCount,
                                    !.alreadyRegisteredCount = @ + counts.alreadyRegisteredCount,
                                    !.duplicateNameCount = @ + counts.duplicateNameCount,
                                    !.totalProcessed = @ + counts.totalProcessed]
               ELSE summary
  IN IF result.success = FALSE THEN [added EXCEPT !.failedPage = @ + 1] ELSE added

\* the job as Bull takes it for the first time
NewPrc ==
  [pc |-> "login", state |-> "active", attemptsMade |-> 0,
   crawls |-> 0, crawlThrows |-> 0, emitFailures |-> 0,
   contextOpen |-> FALSE, results |-> << >>, i |-> 1, summary |-> NewSummary,
   handedOver |-> FALSE, openAtEmit |-> FALSE]

\* the handler threw: Bull counts the attempt and retries the job from the
\* start until its attempts are used up
AttemptThrew(p) ==
  LET made == p.attemptsMade + 1
  IN IF made < Attempts
     THEN [p EXCEPT !.attemptsMade = made, !.pc = "login", !.state = "active",
                    !.results = << >>, !.i = 1, !.summary = NewSummary]
     ELSE [p EXCEPT !.attemptsMade = made, !.pc = "settled", !.state = "failed"]

PrcStart ==
  /\ prc.pc = "idle"
  /\ prc' = NewPrc
  /\ UNCHANGED <<service, fan, ord, reg, pag, ext, det, act, sel, hom, boot, dlv>>

\* OnchCrawlerService.productRegistration: loginToOnchSite, before the try
PrcLogin ==
  /\ prc.pc = "login"
  /\ \E loggedIn \in BOOLEAN :
       prc' = IF loggedIn
              THEN [prc EXCEPT !.pc = "pages", !.contextOpen = TRUE, !.crawls = @ + 1]
              ELSE AttemptThrew([prc EXCEPT !.crawls = @ + 1, !.crawlThrows = @ + 1])
  /\ UNCHANGED <<service, fan, ord, reg, pag, ext, det, act, sel, hom, boot, dlv>>

\* the page loop, and the finally that releases the context before the
\* results (or the exception) reach the processor
PrcPages ==
  /\ prc.pc = "pages"
  /\ \E threw \in BOOLEAN : \E results \in ResultLists :
       LET released == [prc EXCEPT !.contextOpen = FALSE]
       IN prc' = IF threw
                 THEN AttemptThrew([released EXCEPT !.crawlThrows = @ + 1])
                 ELSE [released EXCEPT !.pc = "summary", !.results = results,
                                       !.i = 1, !.summary = NewSummary]
  /\ UNCHANGED <<service, fan, ord, reg, pag, ext, det, act, sel, hom, boot, dlv>>

PrcEach ==
  /\ prc.pc = "summary"
  /\ prc.i <= Len(prc.results)
  /\ prc' = [prc EXCEPT !.summary = AddResult(@, prc.results[prc.i]), !.i = @ + 1]
  /\ UNCHANGED <<service, fan, ord, reg, pag, ext, det, act, sel, hom, boot, dlv>>

\* await rabbitmqService.emit('mail-queue', 'sendProductRegistrationSummary', ...)
PrcEmit ==
  /\ prc.pc = "summary"
  /\ prc.i > Len(prc.results)
  /\ \E emitted \in BOOLEAN :
       prc' = IF emitted
              THEN [prc EXCEPT !.pc = "settled", !.state = "completed",
                               !.attemptsMade = @ + 1,
                               !.handedOver = TRUE, !.openAtEmit = prc.contextOpen]
              ELSE AttemptThrew([prc EXCEPT !.emitFailures = @ + 1])
  /\ UNCHANGED <<service, fan, ord, reg, pag, ext, det, act, sel, hom, boot, dlv>>

NextPrc == PrcStart \/ PrcLogin \/ PrcPages \/ PrcEach \/ PrcEmit

SpecPrc == Init /\ [][NextPrc]_vars

\* ------------------- ProductRegistrationProvider.performProductRegistrationAction
\* the phrases responseHandler looks for in a response of addItem_test.php
RateLimitPhrases == {"daily-request-limit", "purchase-option-count", "request-again-tomorrow"}

\* the call right after the click on the submit button: the response listener
\* is on, no dialog listener is
NewAct ==
  [pc |-> "settle", apiResponseCaptured |-> FALSE, apiResponseError |-> "",
   responseAt |-> "none", dialogAt |-> "none", dialogMessage |-> "",
   dialogListener |-> FALSE, responseListener |-> TRUE, accepted |-> FALSE,
   dailyLimitReached |-> FALSE, notified |-> FALSE,
   alertMessage |-> "", outcome |-> "running"]

\* where a response or a dialog can still reach the call
ActRunning == {"settle", "check", "sleep", "dialog-wait"}

\* page.on('response', responseHandler), then the wait for the submit button
\* and the click on it, which can reject
ActStart ==
  /\ act.pc = "idle"
  /\ \E clicked \in BOOLEAN :
       act' = IF clicked THEN NewAct
              ELSE [NewAct EXCEPT !.pc = "done", !.outcome = "threw"]
  /\ UNCHANGED <<service, fan, ord, reg, pag, ext, det, prc, sel, hom, boot, dlv>>

\* the site answers addItem_test.php with a rate-limit phrase: responseHandler
ActResponse ==
  /\ act.pc \in ActRunning
  /\ act.responseAt = "none"
  /\ \E phrase \in RateLimitPhrases :
       act' = [act EXCEPT !.apiResponseCaptured = TRUE, !.apiResponseError = phrase,
                          !.responseAt = act.pc]
  /\ UNCHANGED <<service, fan, ord, reg, pag, ext, det, prc, sel, hom, boot, dlv>>

\* the site opens its alert: the listener of page.once accepts it, and a
\* dialog that finds no listener is dismissed by the browser driver
ActDialog ==
  /\ act.pc \in ActRunning
  /\ act.dialogAt = "none"
  /\ \E message \in Alerts :
       act' = IF act.dialogListener
              THEN [act EXCEPT !.dialogAt = act.pc, !.dialogMessage = message,
                               !.alertMessage = message, !.accepted = TRUE,
                               !.dialogListener = FALSE]
              ELSE [act EXCEPT !.dialogAt = act.pc, !.dialogMessage = message]
  /\ UNCHANGED <<service, fan, ord, reg, pag, ext, det, prc, sel, hom, boot, dlv>>

\* the second of waiting after the click is over: the check loop starts
ActSettled ==
  /\ act.pc = "settle"
  /\ act' = [act EXCEPT !.pc = "check"]
  /\ UNCHANGED <<service, fan, ord, reg, pag, ext, det, prc, sel, hom, boot, dlv>>

\* one pass of the check loop: the alert is sent and the flag set when a
\* phrase was captured, else the loop sleeps 100 ms
ActCheck ==
  /\ act.pc = "check"
  /\ \E emitted \in BOOLEAN :
       act' = IF ~act.apiResponseCaptured THEN [act EXCEPT !.pc = "sleep"]
              ELSE IF emitted
              THEN [act EXCEPT !.notified = TRUE, !.dailyLimitReached = TRUE,
                               !.pc = "dialog-wait", !.dialogListener = TRUE]
              ELSE [act EXCEPT !.pc = "done", !.outcome = "threw"]
  /\ UNCHANGED <<service, fan, ord, reg, pag, ext, det, prc, sel, hom, boot, dlv>>

\* the sleep is over: the loop goes round while API_RESPONSE_WAIT_TIME has
\* not passed, else the dialog listener is registered
ActSleepOver ==
  /\ act.pc = "sleep"
  /\ \E elapsed \in BOOLEAN :
       act' = IF elapsed THEN [act EXCEPT !.pc = "dialog-wait", !.dialogListener = TRUE]
              ELSE [act EXCEPT !.pc = "check"]
  /\ UNCHANGED <<service, fan, ord, reg, pag, ext, det, prc, sel, hom, boot, dlv>>

\* Promise.race: the dialog promise resolved and the response listener is
\* removed, or the 300 s passed without it
ActRace ==
  /\ act.pc = "dialog-wait"
  /\ act' = IF act.accepted
            THEN [act EXCEPT !.pc = "done", !.outcome = "returned",
                             !.responseListener = FALSE]
            ELSE [act EXCEPT !.pc = "done", !.outcome = "threw"]
  /\ UNCHANGED <<service, fan, ord, reg, pag, ext, det, prc, sel, hom, boot, dlv>>

NextAct ==
  ActStart \/ ActResponse \/ ActDialog \/ ActSettled \/ ActCheck \/ ActSleepOver \/ ActRace

SpecAct == Init /\ [][NextAct]_vars

\* ------------------------------ AutomaticOrderingProvider.selectProductOption
MaxLen == 2        \* characters of an option text and of an item name
MaxOptions == 2    \* options the select list holds

\* a text is a sequence of characters; "A" is the upper case of "a"
OptionChars == {"a", "A", " "}
NameChars == {"a", "A", " ", ","}
TextsOver(chars) == UNION {[1..n -> chars] : n \in 0..MaxLen}

\* the version of automaticOrdering.provider.ts and the earlier one that
\* deleteProducts.provider.ts still holds
SelVersions == {"current", "earlier"}

\* text.replace(/\s+/g, '')
RemoveWhitespace(text) == SelectSeq(text, LAMBDA c : c # " ")

\* String.prototype.toLowerCase
ToLowerCase(text) == [i \in DOMAIN text |-> IF text[i] = "A" THEN "a" ELSE text[i]]

\* String.prototype.trim
RECURSIVE TrimText(_)
TrimText(text) ==
  IF text # << >> /\ Head(text) = " " THEN TrimText(Tail(text))
  ELSE IF text # << >> /\ text[Len(text)] = " " THEN TrimText(SubSeq(text, 1, Len(text) - 1))
  ELSE text

\* optionParts[optionParts.length - 1] of vendorItemName.split(',')
LastPart(name) ==
  LET commas == {i \in DOMAIN name : name[i] = ","}
      from == IF commas = {} THEN 0 ELSE CHOOSE i \in commas : \A j \in commas : j <= i
  IN SubSeq(name, from + 1, Len(name))

\* String.prototype.includes
Includes(text, part) ==
  \E i \in 0..(Len(text) - Len(part)) : SubSeq(text, i + 1, i + Len(part)) = part

\* normalizeText without the lower-casing
normalizeTextKeepsCase(version, text) == RemoveWhitespace(text)

\* normalizeText of the two versions
normalizeText(version, text) ==
  IF version = "current" THEN ToLowerCase(RemoveWhitespace(text))
  ELSE RemoveWhitespace(text)

\* the option text the call looks for
ItemOption(version, name) ==
  IF version = "current" THEN normalizeText(version, TrimText(LastPart(name)))
  ELSE normalizeText(version, name)

\* allOptions.find(...): the index of the first option that passes, 0 if none
FindOption(version, allOptions, itemOption) ==
  LET passes(opt) ==
        /\ version = "current" => ~opt.disabled
        /\ \/ normalizeText(version, opt.text) = itemOption
           \/ Includes(normalizeText(version, opt.text), itemOption)
      hits == {i \in DOMAIN allOptions : passes(allOptions[i])}
  IN IF hits = {} THEN 0 ELSE CHOOSE i \in hits : \A j \in hits : i <= j

\* the select list as page.evaluate reads it: opt.textContent?.trim()
ReadOptions(list) == [i \in DOMAIN list |-> [text |-> TrimText(list[i].text), disabled |-> list[i].disabled]]

SelInputs ==
  [version : SelVersions, visible : BOOLEAN, name : TextsOver(NameChars),
   list : UNION {[1..n -> [text : TextsOver(OptionChars), disabled : BOOLEAN]] : n \in 0..MaxOptions}]

\* the current version waits for '.selectOptionList' and throws when it does
\* not show; the earlier one reads an absent list as no options
SelStart ==
  /\ sel.pc = "idle"
  /\ \E in \in SelInputs :
       sel' = IF in.version = "current" /\ ~in.visible
              THEN [pc |-> "done", in |-> in, allOptions |-> << >>, target |-> 0,
                    outcome |-> "list-not-found"]
              ELSE [pc |-> "find", in |-> in,
                    allOptions |-> IF in.visible THEN ReadOptions(in.list) ELSE << >>,
                    target |-> 0, outcome |-> "running"]
  /\ UNCHANGED <<service, fan, ord, reg, pag, ext, det, act, prc, hom, boot, dlv>>

\* allOptions.find and the throw of "옵션을 찾을 수 없습니다"
SelFind ==
  /\ sel.pc = "find"
  /\ LET target == FindOption(sel.in.version, sel.allOptions,
                              ItemOption(sel.in.version, sel.in.name))
     IN sel' = IF target = 0
               THEN [sel EXCEPT !.pc = "done", !.outcome = "option-not-found"]
               ELSE [sel EXCEPT !.pc = "select", !.target = target]
  /\ UNCHANGED <<service, fan, ord, reg, pag, ext, det, act, prc, hom, boot, dlv>>

\* page.selectOption / select.value = optionValue: the option is chosen, or
\* the page rejects the step with an error of its own
SelSelect ==
  /\ sel.pc = "select"
  /\ \E ok \in BOOLEAN :
       sel' = [sel EXCEPT !.pc = "done", !.outcome = IF ok THEN "selected" ELSE "select-failed"]
  /\ UNCHANGED <<service, fan, ord, reg, pag, ext, det, act, prc, hom, boot, dlv>>

NextSel == SelStart \/ SelFind \/ SelSelect

SpecSel == Init /\ [][NextSel]_vars

\* ------------------- OnchMessageController.handleOnchMessage (queue-backed)
MaxWaiters == 2    \* requests handleOnchMessage serves at a time, one job each

Waiters == 1..MaxWaiters

\* the patterns put on the queue: for the first the handler returns at once,
\* for the others it waits for the job
EnqueueOnlyPatterns == {"deleteProducts"}
AwaitedPatterns ==
  {"crawlingOnchSoldoutProducts", "crawlOnchRegisteredProducts", "automaticOrdering",
   "waybillExtraction", "soldoutCheck"}

\* what a global:completed event carries: the return value as a JSON string,
\* or a string JSON.parse rejects
JobResults == {"json", "not-json"}

\* a request and its job: the job id is the number of the request
NewWaiter ==
  [pc |-> "none", pattern |-> "", job |-> "none", listening |-> FALSE,
   answer |-> "none", answeredBy |-> 0]

\* onComplete / onFail of request r meet an event of job j: the listeners of
\* a request act on the event of its own job only, and then come off
OnEvent(w, r, j, event, result) ==
  IF ~w.listening \/ j # r THEN w
  ELSE [w EXCEPT !.listening = FALSE, !.pc = "done", !.answeredBy = j,
                 !.answer = IF event = "completed" /\ result = "json" THEN "resolved"
                            ELSE "rejected"]

HomStart ==
  /\ hom.pc = "idle"
  /\ hom' = [pc |-> "run", w |-> [r \in Waiters |-> NewWaiter]]
  /\ UNCHANGED <<service, fan, ord, reg, pag, ext, det, act, prc, sel, boot, dlv>>

\* handleOnchMessage up to its await of messageQueue.add
HomReceive(r) ==
  /\ hom.pc = "run"
  /\ hom.w[r].pc = "none"
  /\ \E pattern \in EnqueueOnlyPatterns \cup AwaitedPatterns :
       hom' = [hom EXCEPT !.w[r].pc = "adding", !.w[r].pattern = pattern]
  /\ UNCHANGED <<service, fan, ord, reg, pag, ext, det, act, prc, sel, boot, dlv>>

\* the queue stores the job; the handler has not resumed yet
HomAdded(r) ==
  /\ hom.pc = "run"
  /\ hom.w[r].pc = "adding"
  /\ hom' = [hom EXCEPT !.w[r].pc = "added", !.w[r].job = "waiting"]
  /\ UNCHANGED <<service, fan, ord, reg, pag, ext, det, act, prc, sel, boot, dlv>>

\* the handler resumes with the job: it returns undefined, or it attaches
\* onComplete and onFail and returns the promise they settle
HomResume(r) ==
  /\ hom.pc = "run"
  /\ hom.w[r].pc = "added"
  /\ hom' = IF hom.w[r].pattern \in AwaitedPatterns
            THEN [hom EXCEPT !.w[r].pc = "listening", !.w[r].listening = TRUE]
            ELSE [hom EXCEPT !.w[r].pc = "done", !.w[r].answer = "undefined"]
  /\ UNCHANGED <<service, fan, ord, reg, pag, ext, det, act, prc, sel, boot, dlv>>

\* a worker of the queue takes the job
HomTake(j) ==
  /\ hom.pc = "run"
  /\ hom.w[j].job = "waiting"
  /\ hom' = [hom EXCEPT !.w[j].job = "active"]
  /\ UNCHANGED <<service, fan, ord, reg, pag, ext, det, act, prc, sel, boot, dlv>>

\* the job ends and the queue emits global:completed or global:failed to the
\* listeners registered at that moment
HomFinish(j) ==
  /\ hom.pc = "run"
  /\ hom.w[j].job = "active"
  /\ \E event \in {"completed", "failed"} : \E result \in JobResults :
       hom' = [hom EXCEPT !.w =
                 [r \in Waiters |->
                    LET heard == OnEvent(hom.w[r], r, j, event, result)
                    IN IF r = j THEN [heard EXCEPT !.job = event] ELSE heard]]
  /\ UNCHANGED <<service, fan, ord, reg, pag, ext, det, act, prc, sel, boot, dlv>>

NextHom ==
  \/ HomStart
  \/ \E r \in Waiters : HomReceive(r) \/ HomAdded(r) \/ HomResume(r) \/ HomTake(r) \/ HomFinish(r)

SpecHom == Init /\ [][NextHom]_vars

\* ------------------------------------------ AppModule.onApplicationBootstrap
MaxLeft == 2       \* jobs a former run of the service left in 'onch-bull-queue'

LeftJobs == 1..MaxLeft

\* the states a former run can leave a job in; an active job carries the lock
\* of the worker that held it until the lock runs out
LeftStates ==
  [state : {"delayed", "wait", "paused"}, locked : {FALSE}, executed : {FALSE}]
    \cup [state : {"active"}, locked : BOOLEAN, executed : {FALSE}]

\* the calls of onApplicationBootstrap in their order
BootSteps == <<"delayed", "wait", "active", "paused", "empty">>

\* queue.clean(0, status) removes the jobs of that status that carry no lock
Cleaned(job, status) ==
  IF job.state = status /\ ~job.locked THEN [job EXCEPT !.state = "removed"] ELSE job

\* queue.empty() removes the jobs that wait, are paused or are delayed
Emptied(job) ==
  IF job.state \in {"wait", "paused", "delayed"} THEN [job EXCEPT !.state = "removed"] ELSE job

\* the application starts over what is in the queue; the processor is
\* registered before onApplicationBootstrap runs
BootStart ==
  /\ boot.pc = "idle"
  /\ \E left \in [LeftJobs -> LeftStates] : boot' = [pc |-> "boot", step |-> 1, jobs |-> left]
  /\ UNCHANGED <<service, fan, ord, reg, pag, ext, det, act, prc, sel, hom, dlv>>

\* the next awaited call of onApplicationBootstrap settles
BootClean ==
  /\ boot.pc = "boot"
  /\ LET status == BootSteps[boot.step]
         swept == [j \in LeftJobs |->
                     IF status = "empty" THEN Emptied(boot.jobs[j])
                     ELSE Cleaned(boot.jobs[j], status)]
     IN boot' = [boot EXCEPT !.jobs = swept,
                             !.step = @ + 1,
                             !.pc = IF boot.step = Len(BootSteps) THEN "done" ELSE "boot"]
  /\ UNCHANGED <<service, fan, ord, reg, pag, ext, det, act, prc, sel, hom, dlv>>

\* the queue moves a delayed job whose delay has passed to the wait list
BootPromote(j) ==
  /\ boot.pc \in {"boot", "done"}
  /\ boot.jobs[j].state = "delayed"
  /\ boot' = [boot EXCEPT !.jobs[j].state = "wait"]
  /\ UNCHANGED <<service, fan, ord, reg, pag, ext, det, act, prc, sel, hom, dlv>>

\* the processor takes the next waiting job (concurrency 1) and runs it
BootWorkerTake(j) ==
  /\ boot.pc \in {"boot", "done"}
  /\ boot.jobs[j].state = "wait"
  /\ \A k \in LeftJobs : ~(boot.jobs[k].state = "active" /\ boot.jobs[k].executed)
  /\ boot' = [boot EXCEPT !.jobs[j] = [state |-> "active", locked |-> TRUE, executed |-> TRUE]]
  /\ UNCHANGED <<service, fan, ord, reg, pag, ext, det, act, prc, sel, hom, dlv>>

\* the job the processor runs ends
BootWorkerEnd(j) ==
  /\ boot.pc \in {"boot", "done"}
  /\ boot.jobs[j].state = "active"
  /\ boot.jobs[j].executed
  /\ boot' = [boot EXCEPT !.jobs[j].state = "finished", !.jobs[j].locked = FALSE]
  /\ UNCHANGED <<service, fan, ord, reg, pag, ext, det, act, prc, sel, hom, dlv>>

\* the lock of the worker that died with the former run runs out
BootLockExpire(j) ==
  /\ boot.pc \in {"boot", "done"}
  /\ boot.jobs[j].state = "active"
  /\ boot.jobs[j].locked
  /\ ~boot.jobs[j].executed
  /\ boot' = [boot EXCEPT !.jobs[j].locked = FALSE]
  /\ UNCHANGED <<service, fan, ord, reg, pag, ext, det, act, prc, sel, hom, dlv>>

\* the queue finds an active job without a lock stalled and puts it back on
\* the wait list
BootStalled(j) ==
  /\ boot.pc \in {"boot", "done"}
  /\ boot.jobs[j].state = "active"
  /\ ~boot.jobs[j].locked
  /\ boot' = [boot EXCEPT !.jobs[j].state = "wait"]
  /\ UNCHANGED <<service, fan, ord, reg, pag, ext, det, act, prc, sel, hom, dlv>>

NextBoot ==
  \/ BootStart \/ BootClean
  \/ \E j \in LeftJobs :
       BootPromote(j) \/ BootWorkerTake(j) \/ BootWorkerEnd(j) \/ BootLockExpire(j) \/ BootStalled(j)

SpecBoot == Init /\ [][NextBoot]_vars

\* --------------------------- DeliveryExtractionProvider.extractDeliveryData
MaxDlvPages == 2   \* pages of the delivery list
MaxRows == 2       \* '.prd_list_li' rows on one page

\* the allow-list of couriers, and the data-name values a track button shows:
\* a listed name, a text holding a listed name, another name
courierNames == {<<"c">>}
CourierTexts == {<<"c">>, <<"x", "c">>, <<"x">>}

\* the date cell of a row: not there, there without text, there with text
DateCells == {"absent", "", "d"}

DlvRows == [date : DateCells, courier : CourierTexts]
DlvPages == UNION {[1..n -> DlvRows] : n \in 0..MaxRows}

\* a list: its pages, whether page 1 shows the link to page 2, and whether
\* following it succeeds
DlvSources ==
  [pages : UNION {[1..n -> DlvPages] : n \in 1..MaxDlvPages}, link : BOOLEAN, navOk : BOOLEAN]

\* extractCurrentPageData: rows without a date element are skipped, then a
\* row is kept if (dateText && isSupportedCourier)
extractCurrentPageData(rows) ==
  SelectSeq(rows, LAMBDA row :
    /\ row.date # "absent"
    /\ row.date # ""
    /\ \E name \in courierNames : Includes(row.courier, name))

DlvStart ==
  /\ dlv.pc = "idle"
  /\ \E source \in DlvSources :
       dlv' = [pc |-> "extract", source |-> source, currentPage |-> 1,
               onchResults |-> << >>, visited |-> {}, returned |-> << >>]
  /\ UNCHANGED <<service, fan, ord, reg, pag, ext, det, act, prc, sel, hom, boot>>

\* the body of the while loop up to moveToNextPage: an empty pageData breaks
DlvExtract ==
  /\ dlv.pc = "extract"
  /\ LET pageData == extractCurrentPageData(dlv.source.pages[dlv.currentPage])
         at == [dlv EXCEPT !.visited = @ \cup {dlv.currentPage}]
     IN dlv' = IF Len(pageData) = 0
               THEN [at EXCEPT !.pc = "done", !.returned = dlv.onchResults]
               ELSE [at EXCEPT !.onchResults = @ \o pageData, !.pc = "move"]
  /\ UNCHANGED <<service, fan, ord, reg, pag, ext, det, act, prc, sel, hom, boot>>

\* moveToNextPage: no link, a failed navigation, or the next page
DlvMoveToNextPage ==
  /\ dlv.pc = "move"
  /\ LET linked == /\ dlv.currentPage < Len(dlv.source.pages)
                   /\ dlv.source.link
     IN dlv' = IF linked /\ dlv.source.navOk
               THEN [dlv EXCEPT !.currentPage = @ + 1, !.pc = "extract"]
               ELSE [dlv EXCEPT !.pc = "done", !.returned = dlv.onchResults]
  /\ UNCHANGED <<service, fan, ord, reg, pag, ext, det, act, prc, sel, hom, boot>>

NextDlv == DlvStart \/ DlvExtract \/ DlvMoveToNextPage

SpecDlv == Init /\ [][NextDlv]_vars

\* ------------------------------------------------------------------ claims
Done(r) == pc[r] = "done"

\* C1: for a recognized pattern, a handler (or awaited job) that fails still
\* yields the reply {status: 'error', message}; no exception leaves
\* processMessage.
C1_NoExceptionEscapes ==
  \A r \in Slots :
    (Done(r) /\ msg[r].pattern \in RecognizedPatterns)
      => /\ reply[r].kind # "threw"
         /\ ops[ReqOwner(r)].outcome = "threw"
              => (reply[r].kind = "envelope" /\ reply[r].status = "error")

\* C2: a message with an unrecognized pattern is answered, in the step that
\* receives it, with {status: 'error', message naming the pattern}; nothing is
\* thrown, no service call is started, no job is enqueued and no browser
\* context is opened.
C2_UnknownPattern ==
  [][\A r \in Slots :
       msg'[r].pattern \in UnknownPatterns
         => /\ pc'[r] = "done"
            /\ reply'[r].kind = "envelope"
            /\ reply'[r].status = "error"
            /\ reply'[r].message = UnknownPatternMessage(msg'[r].pattern)
            /\ ops'[ReqOwner(r)] = NoOp
            /\ rjob'[r] = 0
            /\ msg'[r] # msg[r] => UNCHANGED <<jobs, waitq, contexts>>]_vars

C2_Witness ==
  \E r \in Slots : Done(r) /\ msg[r].pattern \in UnknownPatterns /\ reply[r].status = "error"

\* C3: whatever processMessage returns for a recognized pattern is an envelope
\* with status 'success' or 'error', never no value.
C3_AlwaysEnvelope ==
  \A r \in Slots :
    (Done(r) /\ msg[r].pattern \in RecognizedPatterns /\ reply[r].kind # "threw")
      => (reply[r].kind = "envelope" /\ reply[r].status \in {"success", "error"})

\* C4: the success reply of productRegistration is given when the awaited job
\* is terminal and its data is the list of per-page results of the job's
\* handler.
C4_ReplyIsHandlerResults ==
  [][\A r \in Slots :
       (pc[r] = "awaitJob" /\ pc'[r] = "done" /\ reply'[r].status = "success")
         => /\ jobs'[rjob[r]].state = "completed"
            /\ reply'[r].data = jobs'[rjob[r]].returnvalue
            /\ reply'[r].data = ops[JobOwner(rjob[r])].res
            /\ reply'[r].data.tag = "results"]_vars

SpecScenarioSite == << <<"A1", "A2">>, << >> >>

Running == {j \in QJobs : ops[JobOwner(j)].name # "none"}

\* C6: at any time at most one job of the queue is active, so at most one
\* execution of the product-registration handler is in progress.
C6_OneActiveJob ==
  /\ Cardinality(ActiveJobs) <= 1
  /\ Cardinality(Running) <= 1
  /\ Running \subseteq ActiveJobs

C6_Witness ==
  \E j \in QJobs :
    /\ jobs[j].state = "active"
    /\ ops[JobOwner(j)].pc = "work"
    /\ waitq # << >>

\* the steps a job record can take
Promoted(old, new) == old.state = "delayed" /\ new.state = "waiting"
Taken(old, new) == old.state \in {"waiting", "delayed"} /\ new.state = "active"
Ended(old, new) == old.state = "active" /\ new.state \in {"completed", "failed", "delayed"}
Enqueued(old, new) == old.state = "none" /\ new.state = "waiting"
Dropped(old, new) == new.state = "removed"
AttemptCounted(old, new) ==
  /\ new.attemptsMade \in {old.attemptsMade, old.attemptsMade + 1}
  /\ (old.state = "active" /\ new.state \in {"failed", "delayed"})
       => /\ new.attemptsMade = old.attemptsMade + 1
          /\ new.state = "delayed" <=> new.attemptsMade < Attempts
  /\ new.state = "completed" => new.attemptsMade = old.attemptsMade
LifecycleStep(old, new) ==
  \/ old.state = new.state
  \/ Enqueued(old, new) \/ Promoted(old, new) \/ Taken(old, new)
  \/ Ended(old, new) \/ Dropped(old, new)

\* C7: every step of a job follows waiting/delayed -> active -> completed or
\* failed (a failed attempt below the maximum goes back through delayed), each
\* failed attempt adds one to attemptsMade, and attemptsMade never exceeds the
\* maximum.
C7_AsStated ==
  [][\A j \in QJobs :
       /\ LifecycleStep(jobs[j], jobs'[j])
       /\ Dropped(jobs[j], jobs'[j]) \/ AttemptCounted(jobs[j], jobs'[j])
       /\ jobs'[j].attemptsMade <= Attempts]_vars

\* job.retry() of a failed job
Requeued(old, new) ==
  old.state = "failed" /\ new.state = "waiting" /\ new.retried
    /\ new.attemptsMade = old.attemptsMade

\* C7 amended: the same, except that retryJob puts a failed job back to
\* waiting with its attemptsMade kept; the bound on attemptsMade holds for the
\* jobs retryJob was never applied to.
C7_LifecycleWithRetry ==
  [][\A j \in QJobs :
       /\ LifecycleStep(jobs[j], jobs'[j]) \/ Requeued(jobs[j], jobs'[j])
       /\ Dropped(jobs[j], jobs'[j]) \/ AttemptCounted(jobs[j], jobs'[j])
       /\ ~jobs'[j].retried => jobs'[j].attemptsMade <= Attempts]_vars

C7_Witness ==
  \E j \in QJobs :
    jobs[j].state = "failed" /\ jobs[j].attemptsMade = Attempts /\ ~jobs[j].retried

\* C8: removeJob of a waiting job removes it; removeJob of an active job
\* marks it discarded, so that it is not retried, and does not fail.
C8_RemoveNeverFails ==
  [][\A r \in Slots :
       (pc[r] = "removing" /\ pc'[r] = "done")
         => LET j == msg[r].payload.data IN
            /\ jobs[j].state = "waiting" => jobs'[j].state = "removed"
            /\ jobs[j].state = "active"
                 => (reply'[r].kind # "threw" /\ jobs'[j].discarded)]_vars

\* C9: every browser operation that has ended, whether it returned, returned
\* early or threw, released the context it acquired.
C9_ContextReleased ==
  \A o \in Owners :
    (ops[o].pc = "done" /\ ops[o].acquired) => ops[o].releases >= 1

PairOf(job) == <<job.payload.store, job.payload.jobId>>

\* C10: the context id of a job is determined by its (store, jobId) pair and
\* two jobs with different pairs have different context ids.
C10_ContextIdPerPair ==
  \A i, j \in QJobs :
    (jobs[i].ctx # "" /\ jobs[j].ctx # "")
      => (PairOf(jobs[i]) = PairOf(jobs[j]) <=> jobs[i].ctx = jobs[j].ctx)

\* C11: when releaseContext is called for the context of a run that fanned
\* out pages, every one of those pages has been released.
C11_PagesReleasedFirst ==
  fan.pc = "done" => (fan.contextReleased /\ fan.leaked = {})

\* C12: an operation whose login fails ends at once by raising the error to
\* its caller; it does no further step and reports no result.
C12_LoginFailureIsFatal ==
  [][\A o \in Owners :
       (ops[o].pc = "login" /\ ops'[o].pc = "done")
         => (ops'[o].outcome = "threw" /\ ops'[o].res = NoData)]_vars

\* the items of the orders a call went through
RECURSIVE TotalItems(_)
TotalItems(seen) == IF seen = << >> THEN 0 ELSE Head(seen).items + TotalItems(Tail(seen))

\* C13: a call of automaticOrdering whose orders all have items returns one
\* result per order item, and every item of every order was attempted,
\* whatever happened to the items before it.
C13_OneResultPerItem ==
  (ord.pc = "done" /\ \A i \in 1..Len(ord.seen) : ord.seen[i].items > 0)
    => /\ ord.returned = "results"
       /\ Len(ord.results) = TotalItems(ord.seen)
       /\ \A i \in 1..Len(ord.seen) : ord.seen[i].tried = ord.seen[i].items

\* C14: the result list only grows by appending, and the call returns it with
\* exactly one entry per input order, in input order, also when an order has
\* no items.
C14_AppendOnlyOnePerOrder ==
  [][/\ ord.pc # "idle"
          => (ord'.results = ord.results
                \/ \E e \in {OrdResult(ord'.i, st, er) :
                               st \in {"success", "failed"},
                               er \in {"", "search", "option-not-found", "quantity",
                                       "receiver", "address", "page"}} :
                     ord'.results = Append(ord.results, e))
     /\ ord'.pc = "done"
          => /\ ord'.returned = "results"
             /\ Len(ord'.results) = ord'.n
             /\ \A i \in 1..Len(ord'.results) : ord'.results[i].orderId = i]_vars

\* C15: every confirmation dialog raised by a Submit is accepted exactly once.
C15_DialogAcceptedOnce ==
  ord.pc # "idle" => \A d \in 1..Len(ord.dialogs) : ord.dialogs[d] = 1

\* C16: an order is submitted only if all its quantities are above 0 and its
\* receiver name, phone, postcode and address are non-empty; any other order
\* ends as a failed result without Submit.
C16_SubmitOnlyIfValid ==
  [][(ord.pc # "idle" /\ Len(ord'.seen) = Len(ord.seen) + 1)
       => LET last == ord'.seen[Len(ord'.seen)] IN
          /\ last.submitted => last.valid
          /\ ~last.valid
               => /\ ~last.submitted
                  /\ ord'.results = Append(ord.results, OrdResult(ord'.i, "failed", "quantity"))
                     \/ ord'.results = Append(ord.results, OrdResult(ord'.i, "failed", "receiver"))
                     \/ ord'.results = Append(ord.results, OrdResult(ord'.i, "failed", "address"))
                     \/ ord'.results = Append(ord.results, OrdResult(ord'.i, "failed", "search"))
                     \/ ord'.results = Append(ord.results, OrdResult(ord'.i, "failed", "page"))
                     \/ ord'.results =
                          Append(ord.results, OrdResult(ord'.i, "failed", "option-not-found"))]_vars

\* C17: after a rate-limit phrase was observed in a response on a page of a
\* registration run, no later page of the run is navigated.
C17_NoPageAfterRateLimit ==
  reg.pc # "idle" => ~reg.navigatedAfter

\* C18: no page is attempted more than MAX_RETRY_COUNT times, and a page all
\* of whose attempts threw was attempted exactly MAX_RETRY_COUNT times and is
\* recorded as failed.
C18_RetryBound ==
  reg.pc # "idle"
    => /\ reg.attempts <= MAX_RETRY_COUNT
       /\ \A i \in 1..Len(reg.log) :
            /\ reg.log[i].attempts <= MAX_RETRY_COUNT
            /\ reg.log[i].threw = reg.log[i].attempts
                 => /\ reg.log[i].attempts = MAX_RETRY_COUNT
                    /\ reg.log[i].recorded = "failed"
                    /\ \E k \in 1..Len(reg.results) :
                         /\ reg.results[k].page = reg.log[i].page
                         /\ ~reg.results[k].success

C18_Witness ==
  /\ reg.pc # "idle"
  /\ \E i \in 1..Len(reg.log) :
       /\ reg.log[i].threw = MAX_RETRY_COUNT
       /\ reg.log[i].attempts = MAX_RETRY_COUNT
       /\ reg.log[i].recorded = "failed"

\* the records of pages 1..n, page after page
RECURSIVE ConcatPages(_, _)
ConcatPages(source, n) ==
  IF n = 0 THEN << >> ELSE ConcatPages(source, n - 1) \o RecordsOf(source, n)

\* the number of non-empty pages a source starts with
RECURSIVE LeadingNonEmpty(_, _)
LeadingNonEmpty(source, p) ==
  IF PageAt(source, p).count = 0 THEN p - 1 ELSE LeadingNonEmpty(source, p + 1)

\* the source yields its N non-empty pages and the empty one after them:
\* every navigation to them succeeds, and on the delivery list each of the N
\* pages links to the next
YieldsThenEmpty(kind, source) ==
  LET N == LeadingNonEmpty(source, 1)
  IN /\ \A p \in 1..(N + 1) : (kind = "catalog" \/ p > 1) => PageAt(source, p).navOk
     /\ kind = "delivery" => \A p \in 1..N : PageAt(source, p).link

\* C19: on a source of N non-empty pages followed by an empty one, the loop
\* reads exactly the pages 1..N+1 and returns the records of pages 1..N
\* concatenated in page order.
C19_PaginationTermination ==
  (pag.pc = "done" /\ YieldsThenEmpty(pag.kind, pag.source))
    => LET N == LeadingNonEmpty(pag.source, 1)
       IN /\ pag.outcome = "returned"
          /\ pag.fetched = [p \in 1..(N + 1) |-> p]
          /\ pag.returned = ConcatPages(pag.source, N)

C19_Witness ==
  /\ pag.pc = "done"
  /\ YieldsThenEmpty(pag.kind, pag.source)
  /\ LeadingNonEmpty(pag.source, 1) >= 2
  /\ Len(pag.returned) > LeadingNonEmpty(pag.source, 1)

CodesOfRecord(product) ==
  {product.coupangProductCode.code, product.sellerProductName.code,
   product.sellerManagementCode.code, product.externalVendorSkuCode.code} \ {NoCode}

CodesIn(deleteProducts) ==
  UNION {CodesOfRecord(deleteProducts[i]) : i \in 1..Len(deleteProducts)}

\* C21: the list extractProductCodes returns names no product code twice and
\* names every product code that a field of an input record carries.
C21_DistinctAndComplete ==
  ext.pc = "done"
    => /\ \A i, j \in 1..Len(ext.returned) :
            ext.returned[i].code = ext.returned[j].code => i = j
       /\ {ext.returned[i].code : i \in 1..Len(ext.returned)} = CodesIn(ext.deleteProducts)

\* C22: when a detail crawl has returned, the sink holds ceil(n / BATCH_SIZE)
\* batches for the n extracted records, all of BATCH_SIZE records except at
\* most a smaller last one, and every extracted record is in exactly one batch.
C22_BatchesOfFifty ==
  (det.pc = "done" /\ det.outcome = "returned")
    => /\ Len(det.sink) = CeilDiv(Cardinality(det.extracted), BATCH_SIZE)
       /\ \A b \in 1..Len(det.sink) :
            /\ Len(det.sink[b]) <= BATCH_SIZE
            /\ b < Len(det.sink) => Len(det.sink[b]) = BATCH_SIZE
       /\ \A id \in det.extracted :
            Cardinality({<<b, k>> \in (1..Len(det.sink)) \X (1..BATCH_SIZE) :
                           k <= Len(det.sink[b]) /\ det.sink[b][k] = id}) = 1

\* C25: the pages are closed and the context is released only when no page
\* of the fan-out is still at work on its chunk, also when a page has failed.
C25_AllCompleteBarrier ==
  det.pc # "idle"
    => ((det.pagesClosed \/ det.contextReleased)
          => /\ det.runningAtClose = {}
             /\ \A c \in 1..Len(det.chunks) : det.w[c].st # "run")

\* C23: when the registration summary is handed to the notification sink,
\* the browser context of the job has not been released yet.
C23_HandedOverBeforeRelease ==
  (prc.pc # "idle" /\ prc.handedOver) => prc.openAtEmit

\* C24: a rejected emit changes nothing of the job: the pages are crawled
\* again only after a crawl that threw, a job completes with the attempt
\* whose crawl returned, and it fails only when every attempt's crawl threw.
C24_EmitFailureIsHarmless ==
  prc.pc # "idle"
    => /\ prc.crawls <= prc.crawlThrows + 1
       /\ prc.state = "completed" => prc.attemptsMade = prc.crawlThrows + 1
       /\ prc.state = "failed" => prc.crawlThrows = Attempts

\* the number a label states in a message, 0 when the message does not state it
Stated(alertMessage, label) ==
  IF alertMessage[label] \in 1..MaxCount THEN alertMessage[label] ELSE 0

\* the sum of a label over the first n results that are successful and carry
\* a message
RECURSIVE SumOfLabel(_, _, _)
SumOfLabel(results, n, label) ==
  IF n = 0 THEN 0
  ELSE SumOfLabel(results, n - 1, label)
         + (IF results[n].success /\ results[n].alertMessage # EmptyMessage
            THEN Stated(results[n].alertMessage, label) ELSE 0)

\* C29: the summary of a batch is the field-wise sum of the counts stated in
\* the messages of the successful results, totalProcessed is the sum of the
\* four counts, and failedPage is the number of results with success false.
C29_SummaryIsSum ==
  (prc.pc \in {"summary", "settled"} /\ prc.i > Len(prc.results) /\ prc.state # "failed")
    => /\ \A label \in CountLabels :
            prc.summary[label] = SumOfLabel(prc.results, Len(prc.results), label)
       /\ prc.summary.totalProcessed =
            prc.summary.successCount + prc.summary.failCount
              + prc.summary.alreadyRegisteredCount + prc.summary.duplicateNameCount
       /\ prc.summary.failedPage =
            Cardinality({k \in 1..Len(prc.results) : ~prc.results[k].success})

C29_Witness ==
  /\ prc.pc = "settled"
  /\ prc.handedOver
  /\ Len(prc.results) = MaxResults
  /\ prc.summary.failedPage = 1
  /\ prc.summary.duplicateNameCount > 0
  /\ prc.summary.successCount > 0
  /\ prc.summary.failCount = 0
  /\ prc.summary.totalProcessed >= 2

\* C26: when a response with a rate-limit phrase arrived while the call was
\* between the submit click and the end of the wait for the dialog, the call
\* ends with the daily limit marked and the notification emitted.
C26_PhraseAlwaysMarks ==
  (act.pc = "done" /\ act.responseAt # "none")
    => (act.dailyLimitReached /\ act.notified)

\* C27: when the alert opened at any time after the submit click and before
\* the timeout, the call accepted it and returns its message.
C27_DialogAlwaysCaptured ==
  (act.pc = "done" /\ act.dialogAt # "none")
    => /\ act.accepted
       /\ act.outcome = "returned"
       /\ act.alertMessage = act.dialogMessage

\* the step ends a page whose last attempt threw with the retries used up
Exhausts ==
  /\ reg.pc \in {"goto", "action"}
  /\ Len(reg'.log) = Len(reg.log) + 1
  /\ reg'.log[Len(reg'.log)].threw = MAX_RETRY_COUNT

\* C28: a page whose retries are used up adds exactly one result, failed and
\* carrying the message of the last error, and the loop goes on to the next
\* page; no page ever has more than one result.
C28_OneFailedResultThenNext ==
  [][/\ Exhausts
         => /\ reg'.results =
                 Append(reg.results,
                        RegResult(reg.currentPage, FALSE, "", reg'.log[Len(reg'.log)].lastError))
            /\ reg'.pc = "loop"
            /\ reg'.currentPage = reg.currentPage + 1
            /\ ~reg'.dailyLimitReached
     /\ reg'.pc # "idle"
         => \A i, j \in 1..Len(reg'.results) :
              reg'.results[i].page = reg'.results[j].page => i = j]_vars

C28_Witness ==
  /\ reg.pc = "goto"
  /\ reg.currentPage = 2
  /\ Len(reg.results) = 1
  /\ ~reg.results[1].success
  /\ reg.results[1].errorMessage = ErrorDialog
  /\ reg.log[1].threw = MAX_RETRY_COUNT

\* the place of a step in Search, SelectOption, SetQuantity, FillAddress, Submit
StepRank(step) ==
  CASE step = "Search" -> 1
    [] step = "SelectOption" -> 2
    [] step = "SetQuantity" -> 3
    [] step = "FillAddress" -> 4
    [] step = "Submit" -> 5

\* C30: the steps run for an order follow Search, SelectOption, SetQuantity,
\* FillAddress, Submit without going back, each after the one before it, and
\* a success is recorded only after all of them and the site's confirmation.
C30_StepsInOrder ==
  ord.pc # "idle"
    => \A t \in 1..Len(ord.trace) :
         LET run == ord.trace[t] IN
         /\ \A a \in 1..Len(run.steps) : StepRank(run.steps[a]) = a
         /\ run.status = "success" => (Len(run.steps) = 5 /\ run.confirmed)

\* part occurs in text as a run of consecutive characters
Contains(text, part) ==
  \E before, after \in 0..Len(text) :
    /\ before + Len(part) + after = Len(text)
    /\ \A k \in 1..Len(part) : text[before + k] = part[k]

\* text without its blanks, and with its letters in lower case
Squeezed(text) == SelectSeq(text, LAMBDA c : c \notin {" "})
Folded(text) == [i \in DOMAIN text |-> IF text[i] \in {"a", "A"} THEN "a" ELSE text[i]]

\* the requested option text: the part of the item name after its last comma
\* in the current version, the given option in the earlier one
Requested(version, name) ==
  IF version = "earlier" THEN name
  ELSE IF \E i \in DOMAIN name : name[i] = ","
  THEN SubSeq(name, (CHOOSE i \in DOMAIN name : name[i] = "," /\ \A j \in (i + 1)..Len(name) : name[j] # ",") + 1, Len(name))
  ELSE name

\* the options of the shown list that can be chosen
Available(s) ==
  IF ~s.in.visible THEN {}
  ELSE {i \in DOMAIN s.in.list : s.in.version = "current" => ~s.in.list[i].disabled}

Automating == {o \in Owners : ops[o].pc \notin {"none", "done"}}

\* C32: no two browser operations run at the same time, whether called by
\* the dispatcher for a message, by the queue for a product-registration job
\* or by the periodic requestNotification.
C32_OneBrowserOperation == Cardinality(Automating) <= 1

\* C33: every browser-backed handler logs in and keys its session with
\* payload.store and uses payload.jobId as its job id.
C33_StoreAndJobIdFromPayload ==
  /\ \A r \in Slots :
       (msg[r].pattern \in BrowserPatterns /\ ops[ReqOwner(r)].name = msg[r].pattern)
         => /\ ops[ReqOwner(r)].store = msg[r].payload.store
            /\ ops[ReqOwner(r)].jobId = msg[r].payload.jobId
  /\ \A j \in QJobs :
       ops[JobOwner(j)].name = "productRegistration"
         => /\ ops[JobOwner(j)].store = jobs[j].payload.store
            /\ ops[JobOwner(j)].jobId = jobs[j].payload.jobId

\* C34: an operation that acquired its context has called releaseContext for
\* it exactly once when it ends, on the success path and on every error path.
C34_ReleasedExactlyOnce ==
  \A o \in Owners :
    (ops[o].pc = "done" /\ ops[o].acquired) => ops[o].releases = 1

\* C40: within one run of processPages the daily-limit notification is
\* emitted at most once, and once it is emitted no retry submits the page
\* again.
C40_OneNotificationNoResubmit ==
  reg.pc # "idle" => (reg.notified <= 1 /\ ~reg.resubmitted)

\* C35: when performProductRegistrationAction has ended, by returning or by
\* throwing, neither its response handler nor its one-shot dialog handler is
\* still registered on the page.
C35_NoListenerLeft ==
  act.pc = "done" => (~act.responseListener /\ ~act.dialogListener)

\* C36: a request of handleOnchMessage that waits for its job is answered by
\* the completed or failed event of its own job only, and no such request is
\* left waiting when its job has reached a terminal state, also when the job
\* ended before the listeners were attached.
C36_AnsweredByOwnJobAlways ==
  hom.pc = "run"
    => \A r \in Waiters :
         /\ hom.w[r].answer \in {"resolved", "rejected"} => hom.w[r].answeredBy = r
         /\ hom.w[r].pc = "listening" => hom.w[r].job \notin {"completed", "failed"}

\* C37: performBatchDeletion hands every product code to exactly one worker
\* page, none skipped and none twice, and when it returns successCount +
\* failedCount is the number of product codes it was given.
C37_EveryCodeOnce ==
  (fan.pc # "idle" /\ fan.op = "deleteProducts")
    => /\ \A k \in DOMAIN fan.handled : fan.handled[k] <= 1
       /\ (fan.pc \in {"releasePages", "releaseContext", "done"} /\ ~fan.threw)
            => /\ \A k \in 0..(fan.total - 1) : fan.handled[k] = 1
               /\ fan.successCount + fan.failedCount = fan.total

C37_Witness ==
  /\ fan.pc = "done"
  /\ fan.op = "deleteProducts"
  /\ ~fan.threw
  /\ fan.total = MaxCodes
  /\ fan.successCount >= 1
  /\ fan.failedCount >= 1

\* C38: once onApplicationBootstrap has finished, no job the former run left
\* is delayed, waiting, active or paused, and no such job is ever executed
\* after the restart.
C38_NothingLeftAfterBootstrap ==
  /\ boot.pc = "done"
       => \A j \in LeftJobs : boot.jobs[j].state \notin {"delayed", "wait", "active", "paused"}
  /\ boot.pc \in {"boot", "done"} => \A j \in LeftJobs : ~boot.jobs[j].executed

\* a row with a date text and a courier of the allow-list
Qualifies(row) ==
  /\ row.date = "d"
  /\ \E name \in courierNames : Contains(row.courier, name)

\* the qualifying rows of the pages 1..n, page after page and row after row
RECURSIVE QualifyingUpTo(_, _)
QualifyingUpTo(pages, n) ==
  IF n = 0 THEN << >>
  ELSE QualifyingUpTo(pages, n - 1) \o SelectSeq(pages[n], Qualifies)

\* the pages the next-page links lead to
LinkedPages(source) == IF source.link THEN Len(source.pages) ELSE 1

\* C39: extractDeliveryData returns every row with a date text and a courier
\* of the allow-list from every page the next-page links lead to; a page
\* without such a row does not keep the rows of later pages from being
\* returned.
C39_AllQualifyingRows ==
  (dlv.pc = "done" /\ dlv.source.navOk)
    => dlv.returned = QualifyingUpTo(dlv.source.pages, LinkedPages(dlv.source))

====
